---- MODULE Spec2Model ----
(***************************************************************************)
(* noirtty-web server: the session registry, the emulator loop of run_pty, *)
(* the frame broadcast and the per-transport tasks of handle_socket        *)
(* (src/server/src/main.rs).                                               *)
(*                                                                         *)
(* A frame is identified by the number of TermCommands the emulator had    *)
(* applied when build_frame ran: every loop iteration applies at least one *)
(* command, so frames are distinct and their numbers grow in publication   *)
(* order.  0 stands for None (an empty last_frame slot, no message).       *)
(*                                                                         *)
(* Time is an integer count of milliseconds (std::time::Instant).  Tick    *)
(* may fire between any two steps: threads are preempted and every await   *)
(* takes time.                                                             *)
(***************************************************************************)
EXTENDS Integers, Sequences, FiniteSets, TLC

\* ---- bounds of the model
MaxCmds == 4         \* buffers the PTY reader delivers in one behaviour
FanoutCmds == 2      \* the same, in the specification with two connections
ThrottleCmds == 2    \* the same, in the specifications with a running clock
MaxTicks == 3        \* milliseconds the clock advances in one behaviour
MaxK == 2            \* largest min_interval_ms a quality message carries
RingCap == 2         \* broadcast::channel capacity (256 in main.rs:402), scaled
FanoutRing == 1      \* the same, in the specification with two connections
NumCallers == 2      \* WebSocket requests racing in get_or_create_session
NumIds == 2          \* distinct session ids the requests name
MaxMsgs == 2         \* client messages one connection's receive task handles
PtyCap == 2          \* mpsc::channel capacity of pty_tx (1024, main.rs:401)
SessionSecs == 2     \* SESSION_DURATION_SECS (86400, auth.rs:27), scaled
MaxSecs == 3         \* seconds the wall clock advances in one behaviour
TermCap == 3         \* the same, of term_cmd_tx (1024, main.rs:572)
ReplyCmds == 5       \* buffers the PTY reader delivers where some hold queries
MaxHistory == 2      \* scrollback lines the emulator keeps (10000 by default)
MaxBurst == 2        \* Resize commands applied between two frames
MaxLimit == 2        \* largest max_frames the page sets
MaxIncoming == 4     \* WebSocket messages the client receives

\* ---- program constants
Backdate == 1000     \* Duration::from_secs(1), in ms
Limb == 65536        \* 2^16: a u32 is two 16-bit limbs
DefaultMaxFrames == 8  \* Cell::new(8) in Transport::connect

Transports == {1, 2}   \* the WebSocket connections A and B
Callers == 1..NumCallers
Ids == 1..NumIds
Boot == Backdate     \* the clock at Init: the host has been up for one second

VARIABLES
    \* the clock
    now,
    \* Session (main.rs:107-114)
    minInterval,     \* min_interval_ms: AtomicU64
    lastFrame,       \* last_frame: Mutex<Option<ServerMessage>>
    published,       \* every message handed to frame_tx.send, in order
    ringCap,         \* the capacity frame_tx was created with
    \* emulator thread of run_pty (main.rs:578-642)
    ePc, termQ, applied, eLastSent, eWake, eFrame,
    \* PTY reader thread
    cmdCount,
    \* handle_socket, per transport
    tPc,             \* position of handle_socket / the send task
    rPc,             \* position of the receive task
    wsOpen,          \* the WebSocket still accepts messages
    rxNext,          \* frame_rx: position of the next message to receive
    tLast,           \* `last`, the clone of last_frame
    tMsg,            \* `msg`, the frame taken from the subscription
    tLastSent,       \* last_sent of the send task
    \* history (not read by the program)
    sent,            \* frames written to the WebSocket, in order
    got,             \* frames frame_rx.recv() returned as Ok, in order
    subInfo,         \* what held when the transport subscribed
    lagInfo,         \* lag reports of the transport
    txInfo,          \* throttle decisions of the send task
    eHist,           \* stamps and publications of the emulator loop
    \* Session registry (main.rs:101, 395-424)
    sessions,        \* AppState.sessions: id -> Session object, 0 if absent
    ptyHosts,        \* run_pty threads spawned: Session object -> its id
    shellUp,         \* Session objects whose shell still runs
    cPc, cId, cSess, \* per request: position, session id, Session returned
    ptyFailed,       \* Session objects whose run_pty returned before its loops
    \* run_pty: the control loop and the PTY (main.rs:525-689)
    ptyQ,            \* pty_tx -> input_rx: the PtyCommands in flight
    ctlPc,           \* position of the control loop
    ctlCmd,          \* `cmd`, the PtyCommand the control loop took last
    readerPc,        \* position of the PTY reader thread
    msgCount,        \* client messages handled, per transport
    \* history (not read by the program)
    ptyWritten,      \* PtyCommand::Data written to the PTY master, in order
    termGot,         \* Resize and Scroll the emulator loop dequeued, in order
    rxLog,           \* client messages the receive task handled, in order
    \* the emulator (alacritty_terminal::Term) and build_frame (main.rs:845)
    term,            \* grid size, cursor, scrollback, display offset
    frame,           \* the ServerFrame build_frame returned last
    resized,         \* history: the Resize commands applied since that frame
    \* the PTY master (portable_pty), as the control loop drives it
    master,          \* history: the last master.resize call and its result
    \* request headers and AuthState (auth.rs)
    cHdr,            \* per request: the cookie it carries
    auth,            \* AuthStateInner: mode, credential, tokens, sessions
    \* the client's Transport (src/client/src/transport.rs)
    client,          \* recv_buffer, max_frames and what was offered
    \* a pure function under test: its input and its result
    probe

sessionVars == <<now, minInterval, lastFrame, published, ringCap, ePc, termQ,
                 applied, eLastSent, eWake, eFrame, cmdCount, tPc, rPc, wsOpen,
                 rxNext, tLast, tMsg, tLastSent, sent, got, subInfo, lagInfo,
                 txInfo, eHist>>
registryVars == <<sessions, ptyHosts, shellUp, cPc, cId, cSess, ptyFailed>>
hostVars == <<ptyQ, ctlPc, ctlCmd, readerPc, msgCount, ptyWritten, termGot,
              rxLog>>
edgeVars == <<term, frame, resized, master, cHdr, auth, client, probe>>
vars == <<sessionVars, registryVars, hostVars, edgeVars>>

\* ------------------------------------------------------------ helpers

\* Instant::now().checked_sub(1 s).unwrap_or_else(Instant::now)
BackdatedNow == IF now >= Backdate THEN now - Backdate ELSE now

\* broadcast channel: the number of messages sent so far
tail == Len(published)

\* the oldest position the ring still retains
Oldest == IF tail > ringCap THEN tail - ringCap + 1 ELSE 1

\* min_interval_ms.load(Ordering::Relaxed)
LoadMinInterval == minInterval

\* ------------------------------------------------- the emulator loop

Min2(a, b) == IF a < b THEN a ELSE b

\* mutant: the frame built on the previous turn is published again
StaleFrame == eFrame

\* build_frame(&term): the snapshot of the emulator state
build_frame == applied

\* mutant: the sleep lasts the time already elapsed
SleepForElapsed(min_ms, elapsed) == elapsed

\* min_dur - elapsed, the argument of thread::sleep
SleepFor(min_ms, elapsed) == min_ms - elapsed

\* last_sent = Instant::now(): the frame is built next
Stamp ==
    /\ eLastSent' = now
    /\ ePc' = "build"

\* TermCommand::Data(buf) as the reader thread sends it; the commands the
\* control loop forwards carry the transport and the number of the client
\* message they come from, and a Scroll its delta (arg).  asks: the buffer
\* holds a query (a device status report, say) the emulator answers with
\* Event::PtyWrite
TermData == [kind |-> "Data", src |-> 0, seq |-> 0, arg |-> 0, asks |-> FALSE]

\* the same, where the shell's output asks the terminal for a report
TermQuery == [TermData EXCEPT !.asks = TRUE]

\* PtyCommand::Data(text.into_bytes()): the emulator's answer to a query
PtyReply == [kind |-> "Data", src |-> 0, seq |-> 0, arg |-> 0, asks |-> FALSE]

\* no command taken yet
NoCmd == [kind |-> "None", src |-> 0, seq |-> 0, arg |-> 0, asks |-> FALSE]

\* the emulator thread has ended: term_cmd_rx is dropped
TermRxDropped == ePc = "exited"

\* where the emulator loop goes after applying a command: into
\* TermEventProxy::send_event when the command raised Event::PtyWrite
AfterApply(cmd) == IF cmd.asks THEN "reply" ELSE "drain"

\* the history of the Resize and Scroll commands the emulator loop took
TermTaken(cmd) == IF cmd.kind = "Data" THEN termGot ELSE Append(termGot, cmd)

\* mutant: the drain loop finds the queue empty at once
TryRecvNever == FALSE

\* term_cmd_rx.try_recv() returns Ok: a command is queued
TryRecvOk == termQ # <<>>

\* the PTY reader thread: one buffer read from the master becomes
\* TermCommand::Data on the emulator queue; blocking_send waits for room
ReaderData(budget) ==
    /\ readerPc = "run"
    /\ cmdCount < budget
    /\ Len(termQ) < TermCap
    /\ cmdCount' = cmdCount + 1
    /\ termQ' = Append(termQ, TermData)
    /\ UNCHANGED <<now, minInterval, lastFrame, published, ringCap, ePc,
                   applied, eLastSent, eWake, eFrame, tPc, rPc, wsOpen,
                   rxNext, tLast, tMsg, tLastSent, sent, got, subInfo,
                   lagInfo, txInfo, eHist>>
    /\ UNCHANGED <<registryVars, hostVars, edgeVars>>

\* the same, for a buffer in which the shell asks the terminal for a report
ReaderQuery(budget) ==
    /\ readerPc = "run"
    /\ cmdCount < budget
    /\ Len(termQ) < TermCap
    /\ cmdCount' = cmdCount + 1
    /\ termQ' = Append(termQ, TermQuery)
    /\ UNCHANGED <<now, minInterval, lastFrame, published, ringCap, ePc,
                   applied, eLastSent, eWake, eFrame, tPc, rPc, wsOpen,
                   rxNext, tLast, tMsg, tLastSent, sent, got, subInfo,
                   lagInfo, txInfo, eHist>>
    /\ UNCHANGED <<registryVars, hostVars, edgeVars>>

\* term_cmd_rx.blocking_recv() and the match that applies the command
EmuRecv ==
    /\ ePc = "recv"
    /\ termQ # <<>>
    /\ termQ' = Tail(termQ)
    /\ applied' = applied + 1
    /\ ePc' = AfterApply(Head(termQ))
    /\ termGot' = TermTaken(Head(termQ))
    /\ eHist' = [eHist EXCEPT !.wakes = @ + 1,
                              !.burst = applied + Len(termQ)]
    /\ UNCHANGED <<now, minInterval, lastFrame, published, ringCap, eLastSent,
                   eWake, eFrame, cmdCount, tPc, rPc, wsOpen, rxNext, tLast,
                   tMsg, tLastSent, sent, got, subInfo, lagInfo, txInfo>>
    /\ UNCHANGED <<registryVars, edgeVars>>
    /\ UNCHANGED <<ptyQ, ctlPc, ctlCmd, readerPc, msgCount, ptyWritten, rxLog>>

\* while let Ok(cmd) = term_cmd_rx.try_recv(): one turn of the drain loop
EmuDrain ==
    /\ ePc = "drain"
    /\ IF TryRecvOk
       THEN /\ termQ' = Tail(termQ)
            /\ applied' = applied + 1
            /\ ePc' = AfterApply(Head(termQ))
            /\ termGot' = TermTaken(Head(termQ))
       ELSE /\ ePc' = "throttle"
            /\ UNCHANGED <<termQ, applied, termGot>>
    /\ UNCHANGED <<now, minInterval, lastFrame, published, ringCap, eLastSent,
                   eWake, eFrame, cmdCount, tPc, rPc, wsOpen, rxNext, tLast,
                   tMsg, tLastSent, sent, got, subInfo, lagInfo, txInfo, eHist>>
    /\ UNCHANGED <<registryVars, edgeVars>>
    /\ UNCHANGED <<ptyQ, ctlPc, ctlCmd, readerPc, msgCount, ptyWritten, rxLog>>

\* the throttle check: load min_interval_ms, compare, sleep or stamp
EmuThrottle ==
    /\ ePc = "throttle"
    /\ LET min_ms == LoadMinInterval
           elapsed == now - eLastSent
       IN  IF min_ms > 0 /\ elapsed < min_ms
           THEN /\ ePc' = "sleep"
                /\ eWake' = now + SleepFor(min_ms, elapsed)
                /\ eHist' = [eHist EXCEPT !.checks = Min2(@ + 1, 2)]
                /\ UNCHANGED eLastSent
           ELSE /\ Stamp
                /\ eHist' = [eHist EXCEPT !.checks = Min2(@ + 1, 2),
                                          !.prevStamp = eLastSent]
                /\ UNCHANGED eWake
    /\ UNCHANGED <<now, minInterval, lastFrame, published, ringCap, termQ,
                   applied, eFrame, cmdCount, tPc, rPc, wsOpen, rxNext, tLast,
                   tMsg, tLastSent, sent, got, subInfo, lagInfo, txInfo>>
    /\ UNCHANGED <<registryVars, hostVars, edgeVars>>

\* thread::sleep returns, not before the time asked for; then the stamp
EmuWake ==
    /\ ePc = "sleep"
    /\ now >= eWake
    /\ Stamp
    /\ eHist' = [eHist EXCEPT !.prevStamp = eLastSent]
    /\ UNCHANGED <<now, minInterval, lastFrame, published, ringCap, termQ,
                   applied, eWake, eFrame, cmdCount, tPc, rPc, wsOpen, rxNext,
                   tLast, tMsg, tLastSent, sent, got, subInfo, lagInfo, txInfo>>
    /\ UNCHANGED <<registryVars, hostVars, edgeVars>>

\* build the frame and store it in last_frame
EmuStore ==
    /\ ePc = "build"
    /\ eFrame' = build_frame
    /\ lastFrame' = build_frame
    /\ ePc' = "send"
    /\ UNCHANGED <<now, minInterval, published, ringCap, termQ, applied,
                   eLastSent, eWake, cmdCount, tPc, rPc, wsOpen, rxNext,
                   tLast, tMsg, tLastSent, sent, got, subInfo, lagInfo,
                   txInfo, eHist>>
    /\ UNCHANGED <<registryVars, hostVars, edgeVars>>

\* term_output_tx.send(msg): never waits for a receiver
EmuSend ==
    /\ ePc = "send"
    /\ published' = Append(published, eFrame)
    /\ ePc' = "recv"
    /\ eHist' = [eHist EXCEPT !.pubAt = now, !.prevPubAt = eHist.pubAt,
                              !.burst = 0]
    /\ UNCHANGED <<now, minInterval, lastFrame, ringCap, termQ, applied,
                   eLastSent, eWake, eFrame, cmdCount, tPc, rPc, wsOpen,
                   rxNext, tLast, tMsg, tLastSent, sent, got, subInfo,
                   lagInfo, txInfo>>
    /\ UNCHANGED <<registryVars, hostVars, edgeVars>>

\* the clock advances
Tick ==
    /\ now < Boot + MaxTicks
    /\ now' = now + 1
    /\ UNCHANGED <<minInterval, lastFrame, published, ringCap, ePc, termQ,
                   applied, eLastSent, eWake, eFrame, cmdCount, tPc, rPc,
                   wsOpen, rxNext, tLast, tMsg, tLastSent, sent, got, subInfo,
                   lagInfo, txInfo, eHist>>
    /\ UNCHANGED <<registryVars, hostVars, edgeVars>>

\* --------------------------------------- handle_socket, per transport

\* mutant: a new receiver is handed the last message sent again
SubscribePosReplay == IF tail > 0 THEN tail ELSE 1

\* mutant: a new receiver starts one message late
SubscribePosSkip == tail + 2

\* frame_tx.subscribe(): the receiver starts after the last message sent
SubscribePos == tail + 1

\* mutant: a lag report moves the cursor of every receiver
LagCursorAll(t) == [u \in Transports |-> Oldest]

\* the receiver's cursor after RecvError::Lagged: the oldest message the
\* ring retains (tokio::sync::broadcast); the other receivers keep theirs
LagCursor(t) == [rxNext EXCEPT ![t] = Oldest]

\* mutant: Err(_) => break catches the lag report too
OnLaggedBreak == "ended"

\* Err(RecvError::Lagged(_)) => continue
OnLagged == "recv"

\* mutant: the send task passes every frame whatever interval is stored
SendTaskNeverDrops(min_ms, elapsed) == FALSE

\* mutant: a frame that arrives with no time elapsed is dropped at 0 too
SendTaskDropsAtZero(min_ms, elapsed) == elapsed <= min_ms

\* the send task's throttle: if min_ms > 0 and
\* now.duration_since(last_sent) < min_ms, continue (the frame is dropped)
SendTaskDrops(min_ms, elapsed) == min_ms > 0 /\ elapsed < min_ms

\* the Session object of this model (object 1) is alive: the registry
\* holds its Arc, and with it the fields pty_tx and frame_tx
SessionHeld == \E i \in Ids : sessions[i] = 1

\* the emulator queue has no sender left: the reader thread dropped term_tx
\* and run_pty returned, dropping term_cmd_tx
TermSendersGone == readerPc = "exited" /\ ctlPc = "exited"

\* the broadcast channel has no sender left: term_output_tx of the emulator
\* thread, output_tx of run_pty and frame_tx of the Session
BroadcastClosed == ePc = "exited" /\ ctlPc = "exited" /\ ~SessionHeld

\* the emulator loop is blocked in blocking_recv on an empty queue
EmuIdle == ePc = "recv" /\ termQ = <<>>

NoSub == [last |-> 0, tail |-> 0, quiet |-> FALSE, cmds |-> 0]
NoLag == [lagged |-> FALSE, fresh |-> FALSE, at |-> 0]
NoTx == [at |-> -1, gap |-> -1, k |-> 0]

\* a WebSocket is upgraded: handle_socket subscribes to the broadcast
Attach(t) ==
    /\ tPc[t] \in {"idle", "ended"}
    /\ rPc[t] # "run"
    /\ tPc' = [tPc EXCEPT ![t] = "readLast"]
    /\ rPc' = [rPc EXCEPT ![t] = "none"]
    /\ wsOpen' = [wsOpen EXCEPT ![t] = TRUE]
    /\ rxNext' = [rxNext EXCEPT ![t] = SubscribePos]
    /\ tLast' = [tLast EXCEPT ![t] = 0]
    /\ tMsg' = [tMsg EXCEPT ![t] = 0]
    /\ tLastSent' = [tLastSent EXCEPT ![t] = 0]
    /\ sent' = [sent EXCEPT ![t] = <<>>]
    /\ got' = [got EXCEPT ![t] = <<>>]
    /\ subInfo' = [subInfo EXCEPT ![t] = [last |-> lastFrame, tail |-> tail,
                                          quiet |-> EmuIdle, cmds |-> cmdCount]]
    /\ lagInfo' = [lagInfo EXCEPT ![t] = NoLag]
    /\ txInfo' = [txInfo EXCEPT ![t] = NoTx]
    /\ UNCHANGED <<now, minInterval, lastFrame, published, ringCap, ePc,
                   termQ, applied, eLastSent, eWake, eFrame, cmdCount, eHist>>
    /\ UNCHANGED <<registryVars, hostVars, edgeVars>>

\* session.last_frame.lock().ok().and_then(|guard| guard.clone())
ReadLast(t) ==
    /\ tPc[t] = "readLast"
    /\ tLast' = [tLast EXCEPT ![t] = lastFrame]
    /\ tPc' = [tPc EXCEPT ![t] = "sendInitial"]
    /\ UNCHANGED <<now, minInterval, lastFrame, published, ringCap, ePc,
                   termQ, applied, eLastSent, eWake, eFrame, cmdCount, rPc,
                   wsOpen, rxNext, tMsg, tLastSent, sent, got, subInfo,
                   lagInfo, txInfo, eHist>>
    /\ UNCHANGED <<registryVars, hostVars, edgeVars>>

\* the cached frame is written to the socket (its result is ignored), then
\* the send task and the receive task are spawned
SendInitial(t) ==
    /\ tPc[t] = "sendInitial"
    /\ sent' = [sent EXCEPT ![t] = IF tLast[t] # 0 /\ wsOpen[t]
                                   THEN <<tLast[t]>> ELSE <<>>]
    /\ tLastSent' = [tLastSent EXCEPT ![t] = BackdatedNow]
    /\ tPc' = [tPc EXCEPT ![t] = "recv"]
    /\ rPc' = [rPc EXCEPT ![t] = IF wsOpen[t] THEN "run" ELSE "ended"]
    /\ UNCHANGED <<now, minInterval, lastFrame, published, ringCap, ePc,
                   termQ, applied, eLastSent, eWake, eFrame, cmdCount, wsOpen,
                   rxNext, tLast, tMsg, got, subInfo, lagInfo, txInfo, eHist>>
    /\ UNCHANGED <<registryVars, hostVars, edgeVars>>

\* frame_rx.recv().await returns: Lagged, or Ok(msg) followed by the
\* send task's throttle check, or Closed (Err(_) => break) once every sender
\* is gone and nothing is left to receive
TaskRecv(t) ==
    /\ tPc[t] = "recv"
    /\ IF rxNext[t] < Oldest
       THEN /\ rxNext' = LagCursor(t)
            /\ tPc' = [tPc EXCEPT ![t] = OnLagged]
            /\ lagInfo' = [lagInfo EXCEPT ![t] =
                            [lagged |-> TRUE, fresh |-> TRUE, at |-> tail]]
            /\ UNCHANGED <<tMsg, tLastSent, got, txInfo>>
       ELSE IF rxNext[t] <= tail
       THEN LET msg == published[rxNext[t]]
                   min_ms == LoadMinInterval
                   drop == SendTaskDrops(min_ms, now - tLastSent[t])
               IN  /\ rxNext' = [rxNext EXCEPT ![t] = @ + 1]
                   /\ got' = [got EXCEPT ![t] = Append(@, msg)]
                   /\ lagInfo' = [lagInfo EXCEPT ![t].fresh = FALSE]
                   /\ tMsg' = [tMsg EXCEPT ![t] = IF drop THEN 0 ELSE msg]
                   /\ tPc' = [tPc EXCEPT ![t] =
                                 IF drop THEN "recv" ELSE "wsSend"]
                   /\ tLastSent' = [tLastSent EXCEPT ![t] =
                                       IF min_ms > 0 /\ ~drop THEN now ELSE @]
                   /\ txInfo' = [txInfo EXCEPT ![t] =
                                   IF drop THEN @
                                   ELSE [at |-> now,
                                         gap |-> IF @.at < 0 THEN -1
                                                 ELSE now - @.at,
                                         k |-> min_ms]]
       ELSE /\ BroadcastClosed
            /\ tPc' = [tPc EXCEPT ![t] = "ended"]
            /\ UNCHANGED <<rxNext, tMsg, tLastSent, got, lagInfo, txInfo>>
    /\ UNCHANGED <<now, minInterval, lastFrame, published, ringCap, ePc,
                   termQ, applied, eLastSent, eWake, eFrame, cmdCount, rPc,
                   wsOpen, tLast, sent, subInfo, eHist>>
    /\ UNCHANGED <<registryVars, hostVars, edgeVars>>

\* ws_tx.send(..).await: an error ends the send task, which drops frame_rx
TaskWsSend(t) ==
    /\ tPc[t] = "wsSend"
    /\ IF wsOpen[t]
       THEN /\ sent' = [sent EXCEPT ![t] = Append(@, tMsg[t])]
            /\ tPc' = [tPc EXCEPT ![t] = "recv"]
       ELSE /\ tPc' = [tPc EXCEPT ![t] = "ended"]
            /\ UNCHANGED sent
    /\ tMsg' = [tMsg EXCEPT ![t] = 0]
    /\ UNCHANGED <<now, minInterval, lastFrame, published, ringCap, ePc,
                   termQ, applied, eLastSent, eWake, eFrame, cmdCount, rPc,
                   wsOpen, rxNext, tLast, tLastSent, got, subInfo, lagInfo,
                   txInfo, eHist>>
    /\ UNCHANGED <<registryVars, hostVars, edgeVars>>

\* mutant: a connection that closes takes the cached frame with it
ClientCloseTakes(t) ==
    /\ tPc[t] \notin {"idle", "ended"}
    /\ wsOpen[t]
    /\ wsOpen' = [wsOpen EXCEPT ![t] = FALSE]
    /\ rPc' = [rPc EXCEPT ![t] = IF @ = "run" THEN "ended" ELSE @]
    /\ lastFrame' = 0
    /\ UNCHANGED <<now, minInterval, published, ringCap, ePc,
                   termQ, applied, eLastSent, eWake, eFrame, cmdCount, tPc,
                   rxNext, tLast, tMsg, tLastSent, sent, got, subInfo,
                   lagInfo, txInfo, eHist>>
    /\ UNCHANGED <<registryVars, hostVars, edgeVars>>

\* the client closes or the connection fails: ws_rx.next() ends the
\* receive task and select! returns; the send task is not aborted, it runs
\* until a write to the socket fails
ClientClose(t) ==
    /\ tPc[t] \notin {"idle", "ended"}
    /\ wsOpen[t]
    /\ wsOpen' = [wsOpen EXCEPT ![t] = FALSE]
    /\ rPc' = [rPc EXCEPT ![t] = IF @ = "run" THEN "ended" ELSE @]
    /\ UNCHANGED <<now, minInterval, lastFrame, published, ringCap, ePc,
                   termQ, applied, eLastSent, eWake, eFrame, cmdCount, tPc,
                   rxNext, tLast, tMsg, tLastSent, sent, got, subInfo,
                   lagInfo, txInfo, eHist>>
    /\ UNCHANGED <<registryVars, hostVars, edgeVars>>

\* ClientMessage::Quality { min_interval_ms } => store
RecvQuality(t, k) ==
    /\ rPc[t] = "run"
    /\ wsOpen[t]
    /\ minInterval' = k
    /\ eHist' = [eHist EXCEPT !.checks = IF k = minInterval THEN @ ELSE 0]
    /\ UNCHANGED <<now, lastFrame, published, ringCap, ePc, termQ, applied,
                   eLastSent, eWake, eFrame, cmdCount, tPc, rPc, wsOpen,
                   rxNext, tLast, tMsg, tLastSent, sent, got, subInfo,
                   lagInfo, txInfo>>
    /\ UNCHANGED <<registryVars, hostVars, edgeVars>>

\* ----------------------------------- the receive task of handle_socket

\* A JSON number n is written <<hi, lo>>, n = hi * 2^16 + lo, 0 <= lo < 2^16
NumNeg == <<-1, Limb - 1>>       \* -1
NumOver == <<Limb, 0>>           \* 2^32, one more than u32::MAX
Num(k) == <<0, k>>

\* the texts a client sends: the four tagged messages, and a text that is
\* no ClientMessage at all
Text(type, num) == [type |-> type, num |-> num]
QualityTexts == {Text("quality", Num(k)) : k \in 0..MaxK}
BadQualityTexts == {Text("quality", NumNeg), Text("quality", NumOver)}
CommandTexts == {Text(ty, Num(0)) : ty \in {"data", "resize", "scroll"}}
OtherTexts == {Text("other", Num(0))}

\* serde accepts a number for min_interval_ms: u32 iff it is in 0..2^32-1
IsU32(num) == num[1] >= 0 /\ num[1] < Limb

\* serde accepts a number for delta: i32 iff it is in -2^31..2^31-1
IsI32(num) == num[1] >= -(Limb \div 2) /\ num[1] < Limb \div 2

\* the value of a number that fits an i32
AsI32(num) == num[1] * Limb + num[2]

\* the JSON number of a small integer d
I32Num(d) == IF d < 0 THEN <<-1, Limb + d>> ELSE <<0, d>>

\* scroll messages with the deltas a wheel sends, up and down
ScrollTexts == {Text("scroll", I32Num(d)) : d \in {-1, 1, 2}}

\* min_interval_ms as u64
AsU64(num) == num[1] * Limb + num[2]

\* serde_json::from_str::<ClientMessage>(&text)
ParseClientMessage(text) ==
    CASE text.type = "quality" ->
            IF IsU32(text.num)
            THEN [ok |-> TRUE, kind |-> "Quality", k |-> AsU64(text.num)]
            ELSE [ok |-> FALSE, kind |-> "Err", k |-> 0]
      [] text.type = "data" -> [ok |-> TRUE, kind |-> "Data", k |-> 0]
      [] text.type = "resize" -> [ok |-> TRUE, kind |-> "Resize", k |-> 0]
      [] text.type = "scroll" ->
            IF IsI32(text.num)
            THEN [ok |-> TRUE, kind |-> "Scroll", k |-> AsI32(text.num)]
            ELSE [ok |-> FALSE, kind |-> "Err", k |-> 0]
      [] OTHER -> [ok |-> FALSE, kind |-> "Err", k |-> 0]

\* mutant: a text that does not parse ends the receive loop
OnParseErrorBreak == "ended"

\* else { warn!("Failed to parse client message") }: the loop goes on
OnParseError == "run"

\* mutant: a command is put at the head of the queue
EnqueueFirst(q, cmd) == <<cmd>> \o q

\* mpsc send: the command joins the queue at its end
Enqueue(q, cmd) == Append(q, cmd)

\* the control loop has left run_pty: input_rx is dropped
PtyRxDropped == ctlPc = "exited"

\* mutant: the send never waits
PtySendNoWait == TRUE

\* pty_tx.send(cmd).await completes: the queue has room, or the receiver is
\* gone and the send fails at once
PtySendReady == PtyRxDropped \/ Len(ptyQ) < PtyCap

\* let _ = pty_tx.send(cmd).await: queued, or lost when the receiver is gone
PtySend(cmd) == IF PtyRxDropped THEN ptyQ ELSE Enqueue(ptyQ, cmd)

\* ws_rx.next() yields Message::Text(text): parse and dispatch
RecvText(t, text) ==
    /\ rPc[t] = "run"
    /\ wsOpen[t]
    /\ msgCount[t] < MaxMsgs
    /\ LET m == ParseClientMessage(text)
           seq == msgCount[t] + 1
           cmd == [kind |-> m.kind, src |-> t, seq |-> seq,
                   arg |-> IF m.kind = "Scroll" THEN m.k ELSE 0,
                   asks |-> FALSE]
       IN  /\ msgCount' = [msgCount EXCEPT ![t] = seq]
           /\ rxLog' = [rxLog EXCEPT ![t] =
                 Append(@, [text |-> text,
                            tail |-> IF m.kind = "Quality" THEN tail ELSE 0])]
           /\ IF ~m.ok
              THEN /\ rPc' = [rPc EXCEPT ![t] = OnParseError]
                   /\ UNCHANGED <<ptyQ, minInterval, eHist>>
              ELSE IF m.kind = "Quality"
              THEN /\ minInterval' = m.k
                   /\ eHist' = [eHist EXCEPT !.checks =
                                   IF m.k = minInterval THEN @ ELSE 0]
                   /\ UNCHANGED <<ptyQ, rPc>>
              ELSE /\ PtySendReady
                   /\ ptyQ' = PtySend(cmd)
                   /\ UNCHANGED <<minInterval, eHist, rPc>>
    /\ UNCHANGED <<now, lastFrame, published, ringCap, ePc, termQ, applied,
                   eLastSent, eWake, eFrame, cmdCount, tPc, wsOpen, rxNext,
                   tLast, tMsg, tLastSent, sent, got, subInfo, lagInfo,
                   txInfo>>
    /\ UNCHANGED <<registryVars, edgeVars>>
    /\ UNCHANGED <<ctlPc, ctlCmd, readerPc, ptyWritten, termGot>>

\* --------------------------------------- the control loop of run_pty

\* TermEventProxy::send_event, called inside processor.advance on the
\* emulator thread: let _ = pty_tx.blocking_send(PtyCommand::Data(..))
\* waits for room in the PTY command queue, then the loop goes on draining
EmuReply ==
    /\ ePc = "reply"
    /\ PtyRxDropped \/ Len(ptyQ) < PtyCap
    /\ ptyQ' = IF PtyRxDropped THEN ptyQ ELSE Enqueue(ptyQ, PtyReply)
    /\ ePc' = "drain"
    /\ UNCHANGED <<now, minInterval, lastFrame, published, ringCap, termQ,
                   applied, eLastSent, eWake, eFrame, cmdCount, tPc, rPc,
                   wsOpen, rxNext, tLast, tMsg, tLastSent, sent, got, subInfo,
                   lagInfo, txInfo, eHist>>
    /\ UNCHANGED <<registryVars, edgeVars>>
    /\ UNCHANGED <<ctlPc, ctlCmd, readerPc, msgCount, ptyWritten, termGot,
                   rxLog>>

\* input_rx.blocking_recv() returns a command: Data is written to the PTY
\* master (write_all succeeds), Resize calls master.resize, which succeeds
\* or fails, Scroll goes straight to the send to the emulator queue
ControlRecv ==
    /\ ctlPc = "recv"
    /\ ptyQ # <<>>
    /\ ptyQ' = Tail(ptyQ)
    /\ ctlCmd' = Head(ptyQ)
    /\ CASE Head(ptyQ).kind = "Data" ->
               /\ ptyWritten' = Append(ptyWritten, Head(ptyQ))
               /\ UNCHANGED <<master, ctlPc>>
         [] Head(ptyQ).kind = "Resize" ->
               /\ \E ok \in BOOLEAN :
                     master' = [calls |-> master.calls + 1,
                                cmd |-> Head(ptyQ), ok |-> ok]
               /\ ctlPc' = "resized"
               /\ UNCHANGED ptyWritten
         [] OTHER ->
               /\ ctlPc' = "scroll"
               /\ UNCHANGED <<ptyWritten, master>>
    /\ UNCHANGED sessionVars
    /\ UNCHANGED registryVars
    /\ UNCHANGED <<term, frame, resized, cHdr, auth, client, probe>>
    /\ UNCHANGED <<readerPc, msgCount, termGot, rxLog>>

\* mutant: the emulator is told only of a resize the master accepted
ForwardIfResized(ok) == ok

\* let _ = master.resize(..): the result is dropped, the loop goes on to
\* term_cmd_tx.blocking_send whatever it was
ForwardAfterResize(ok) == TRUE

\* mutant: a scroll is also written to the PTY master
ScrollWritten(cmd) == Append(ptyWritten, cmd)

\* PtyCommand::Scroll(delta) => nothing but the send: the writer is not used
ScrollWrites(cmd) == ptyWritten

\* let _ = term_cmd_tx.blocking_send(TermCommand::Resize(cols, rows)), or
\* TermCommand::Scroll(delta): waits for room in the emulator queue; the
\* command is lost when the emulator thread is gone
ControlForward ==
    /\ ctlPc \in {"resized", "scroll"}
    /\ TermRxDropped \/ Len(termQ) < TermCap
    /\ termQ' = IF TermRxDropped THEN termQ
                ELSE IF ctlPc = "resized" /\ ~ForwardAfterResize(master.ok)
                THEN termQ
                ELSE Enqueue(termQ, ctlCmd)
    /\ ptyWritten' = IF ctlPc = "scroll" THEN ScrollWrites(ctlCmd)
                     ELSE ptyWritten
    /\ ctlPc' = "recv"
    /\ UNCHANGED <<now, minInterval, lastFrame, published, ringCap, ePc,
                   applied, eLastSent, eWake, eFrame, cmdCount, tPc, rPc,
                   wsOpen, rxNext, tLast, tMsg, tLastSent, sent, got, subInfo,
                   lagInfo, txInfo, eHist>>
    /\ UNCHANGED <<registryVars, edgeVars>>
    /\ UNCHANGED <<ptyQ, ctlCmd, readerPc, msgCount, termGot, rxLog>>

\* the steps of the control loop that wait for nobody
ControlStep == ControlRecv \/ ControlForward

\* writer.write_all(&data) fails: break, run_pty returns and drops input_rx
\* with the commands still queued, term_cmd_tx and output_tx
ControlWriteFails ==
    /\ ctlPc = "recv"
    /\ ptyQ # <<>>
    /\ Head(ptyQ).kind = "Data"
    /\ ctlPc' = "exited"
    /\ ctlCmd' = Head(ptyQ)
    /\ ptyQ' = <<>>
    /\ UNCHANGED sessionVars
    /\ UNCHANGED <<registryVars, edgeVars>>
    /\ UNCHANGED <<readerPc, msgCount, ptyWritten, termGot, rxLog>>

\* the shell exits: reader.read returns Ok(0) or an error, the reader
\* thread breaks and drops term_tx
ReaderEof ==
    /\ readerPc = "run"
    /\ readerPc' = "exited"
    /\ UNCHANGED sessionVars
    /\ UNCHANGED <<registryVars, edgeVars>>
    /\ UNCHANGED <<ptyQ, ctlPc, ctlCmd, msgCount, ptyWritten, termGot, rxLog>>

\* term_cmd_rx.blocking_recv() returns None: the queue is empty and has no
\* sender; the emulator thread ends and drops term_output_tx
EmuExit ==
    /\ ePc = "recv"
    /\ termQ = <<>>
    /\ TermSendersGone
    /\ ePc' = "exited"
    /\ UNCHANGED <<now, minInterval, lastFrame, published, ringCap, termQ,
                   applied, eLastSent, eWake, eFrame, cmdCount, tPc, rPc,
                   wsOpen, rxNext, tLast, tMsg, tLastSent, sent, got, subInfo,
                   lagInfo, txInfo, eHist>>
    /\ UNCHANGED <<registryVars, hostVars, edgeVars>>

\* ------------------------------------------------- the session engine

\* master.resize has not been called
NoResize == [calls |-> 0, cmd |-> 0, ok |-> TRUE]

\* no frame built yet
NoFrame == [built |-> FALSE]

\* no pure function applied
NoProbe == [fn |-> "none"]

\* Term::new(config, &TermSize { cols: 80, rows: 24 }, proxy): an empty
\* 80 x 24 grid, the cursor at its origin and shown, no scrollback
NewTerm == [cols |-> 80, rows |-> 24, col |-> 0, line |-> 0,
            hidden |-> FALSE, history |-> 0, offset |-> 0, alive |-> TRUE]

\* Transport::connect: an empty VecDeque and the default max_frames;
\* offered counts the messages that arrived, last is the latest payload.
\* grid is the frame the page's Terminal shows (0: the blank grid of
\* Terminal::new); newest is the latest frame the server sent on this socket
\* and drained tells that render() ran after the latest message
NewTransport == [buf |-> <<>>, max |-> DefaultMaxFrames, offered |-> 0,
                 last |-> "none", grid |-> 0, newest |-> 0, drained |-> FALSE]

\* AuthState::new: the mode, the credential read from passkey.json (0 is
\* None) and the setup token; no registration or login in progress and no
\* login session.  issued and revoked are history: the ids create_session
\* has returned, and those returned before the last sessions.clear()
NewAuth(ip, credential, token) ==
    [ip |-> ip, credential |-> credential, token |-> token,
     reg |-> FALSE, login |-> FALSE, sessions |-> {}, clock |-> 0,
     issued |-> {}, revoked |-> {}]

\* a server started on an IP address or a .local name: open access
OpenAuth == NewAuth(TRUE, 0, 0)

\* the emulator, the PTY master, the auth state and the client at start
InitEdge ==
    /\ term = NewTerm
    /\ frame = NoFrame
    /\ resized = <<>>
    /\ master = NoResize
    /\ cHdr = [c \in Callers |-> "none"]
    /\ auth = OpenAuth
    /\ client = NewTransport
    /\ probe = NoProbe

\* the registry after one get_or_create_session: one Session, its PTY up
InitRegistryOne ==
    /\ sessions = [i \in Ids |-> IF i = 1 THEN 1 ELSE 0]
    /\ ptyHosts = <<1>>
    /\ shellUp = {1}
    /\ cPc = [c \in Callers |-> "idle"]
    /\ cId = [c \in Callers |-> 1]
    /\ cSess = [c \in Callers |-> 0]
    /\ ptyFailed = {}

\* a Session as get_or_create_session and run_pty leave it
InitSession(cap) ==
    /\ now = Boot
    /\ ringCap = cap
    /\ minInterval = 0
    /\ lastFrame = 0
    /\ published = <<>>
    /\ ePc = "recv"
    /\ termQ = <<>>
    /\ applied = 0
    /\ eLastSent = BackdatedNow
    /\ eWake = 0
    /\ eFrame = 0
    /\ cmdCount = 0
    /\ tPc = [t \in Transports |-> "idle"]
    /\ rPc = [t \in Transports |-> "none"]
    /\ wsOpen = [t \in Transports |-> FALSE]
    /\ rxNext = [t \in Transports |-> 1]
    /\ tLast = [t \in Transports |-> 0]
    /\ tMsg = [t \in Transports |-> 0]
    /\ tLastSent = [t \in Transports |-> 0]
    /\ sent = [t \in Transports |-> <<>>]
    /\ got = [t \in Transports |-> <<>>]
    /\ subInfo = [t \in Transports |-> NoSub]
    /\ lagInfo = [t \in Transports |-> NoLag]
    /\ txInfo = [t \in Transports |-> NoTx]
    /\ eHist = [checks |-> 0, prevStamp |-> -1, pubAt |-> -1, prevPubAt |-> -1,
                wakes |-> 0, burst |-> 0]
    /\ ptyQ = <<>>
    /\ ctlPc = "recv"
    /\ ctlCmd = NoCmd
    /\ readerPc = "run"
    /\ msgCount = [t \in Transports |-> 0]
    /\ ptyWritten = <<>>
    /\ termGot = <<>>
    /\ rxLog = [t \in Transports |-> <<>>]

Init == InitSession(RingCap) /\ InitRegistryOne /\ InitEdge

\* the same, with the ring of the specification with two connections
InitFanout == InitSession(FanoutRing) /\ InitRegistryOne /\ InitEdge

\* the threads of run_pty; the reader delivers at most `budget` buffers.
\* The end of a throttle sleep, EmuWake, needs the clock: it is a step of the
\* specifications with Tick.
NextPty(budget) ==
    \/ ReaderData(budget)
    \/ EmuRecv
    \/ EmuDrain
    \/ EmuThrottle
    \/ EmuStore
    \/ EmuSend

\* one connection: handle_socket, its send task, the socket closing
NextFrames(t) ==
    \/ Attach(t)
    \/ ReadLast(t)
    \/ SendInitial(t)
    \/ TaskRecv(t)
    \/ TaskWsSend(t)
    \/ ClientClose(t)

\* one connection, quality messages included
NextSocket(t) ==
    \/ NextFrames(t)
    \/ \E k \in 0..MaxK : RecvQuality(t, k)

\* One session and one connection at a time (a closed connection may be
\* followed by a new one).  The clock stands still: frames come in bursts
\* faster than any min_interval_ms > 0, and a throttle sleep of the emulator
\* loop does not end.
Next ==
    \/ NextPty(MaxCmds)
    \/ NextSocket(1)

Spec == Init /\ [][Next]_vars

\* One session with two connections; min_interval_ms keeps its initial 0.
NextFanout ==
    \/ NextPty(FanoutCmds)
    \/ \E t \in Transports : NextFrames(t)

SpecFanout == InitFanout /\ [][NextFanout]_vars

\* One session and one connection, with the clock running.
NextThrottle ==
    \/ NextPty(ThrottleCmds)
    \/ NextSocket(1)
    \/ EmuWake
    \/ Tick

SpecThrottle == Init /\ [][NextThrottle]_vars

\* The emulator loop with the clock running.  The connection delivers the
\* quality messages; its send task is not scheduled: it writes nothing
\* the emulator loop reads.
NextEmulator ==
    \/ NextPty(ThrottleCmds)
    \/ Attach(1)
    \/ ReadLast(1)
    \/ SendInitial(1)
    \/ ClientClose(1)
    \/ \E k \in 0..MaxK : RecvQuality(1, k)
    \/ EmuWake
    \/ Tick

SpecEmulator == Init /\ [][NextEmulator]_vars

\* One session and one connection whose client sends well-formed quality
\* messages.  The clock stands still, as in Spec.
NextQuality ==
    \/ NextPty(ThrottleCmds)
    \/ NextFrames(1)
    \/ \E text \in QualityTexts : RecvText(1, text)

SpecQuality == Init /\ [][NextQuality]_vars

\* a connection without its send task: attach, then messages in
NextInput(t, texts) ==
    \/ Attach(t)
    \/ ReadLast(t)
    \/ SendInitial(t)
    \/ \E text \in texts : RecvText(t, text)

\* One session and one connection whose client sends every kind of text.
NextParse ==
    \/ NextPty(1)
    \/ ControlRecv
    \/ ControlForward
    \/ NextInput(1, QualityTexts \cup BadQualityTexts \cup CommandTexts
                        \cup OtherTexts)
    \/ ClientClose(1)

SpecParse == Init /\ [][NextParse]_vars

\* One session and one connection whose client sends data, resize and
\* scroll messages; the control loop handles them.
NextControl ==
    \/ NextPty(1)
    \/ ControlRecv
    \/ ControlForward
    \/ NextInput(1, CommandTexts \cup ScrollTexts)

SpecControl == Init /\ [][NextControl]_vars

\* a new Session to which both connections have attached: each has
\* subscribed, found last_frame empty and spawned its two tasks
InitAttached ==
    /\ now = Boot
    /\ ringCap = RingCap
    /\ minInterval = 0
    /\ lastFrame = 0
    /\ published = <<>>
    /\ ePc = "recv"
    /\ termQ = <<>>
    /\ applied = 0
    /\ eLastSent = BackdatedNow
    /\ eWake = 0
    /\ eFrame = 0
    /\ cmdCount = 0
    /\ tPc = [t \in Transports |-> "recv"]
    /\ rPc = [t \in Transports |-> "run"]
    /\ wsOpen = [t \in Transports |-> TRUE]
    /\ rxNext = [t \in Transports |-> 1]
    /\ tLast = [t \in Transports |-> 0]
    /\ tMsg = [t \in Transports |-> 0]
    /\ tLastSent = [t \in Transports |-> BackdatedNow]
    /\ sent = [t \in Transports |-> <<>>]
    /\ got = [t \in Transports |-> <<>>]
    /\ subInfo = [t \in Transports |->
                    [last |-> 0, tail |-> 0, quiet |-> TRUE, cmds |-> 0]]
    /\ lagInfo = [t \in Transports |-> NoLag]
    /\ txInfo = [t \in Transports |-> NoTx]
    /\ eHist = [checks |-> 0, prevStamp |-> -1, pubAt |-> -1, prevPubAt |-> -1,
                wakes |-> 0, burst |-> 0]
    /\ ptyQ = <<>>
    /\ ctlPc = "recv"
    /\ ctlCmd = NoCmd
    /\ readerPc = "run"
    /\ msgCount = [t \in Transports |-> 0]
    /\ ptyWritten = <<>>
    /\ termGot = <<>>
    /\ rxLog = [t \in Transports |-> <<>>]

InitRouter == InitAttached /\ InitRegistryOne /\ InitEdge

\* One session and two attached connections whose clients send data,
\* resize and scroll messages while the PTY reader delivers output.
NextRouter ==
    \/ NextPty(1)
    \/ ControlRecv
    \/ ControlForward
    \/ \E t \in Transports, text \in CommandTexts : RecvText(t, text)

SpecRouter == InitRouter /\ [][NextRouter]_vars

\* keystrokes and a resize
ReplyTexts == {Text(ty, Num(0)) : ty \in {"data", "resize"}}

\* One session and an attached connection whose client sends commands
\* while the shell's output holds queries the emulator answers through
\* the PTY command queue.
NextReply ==
    \/ NextPty(ReplyCmds)
    \/ ReaderQuery(ReplyCmds)
    \/ EmuReply
    \/ ControlRecv
    \/ ControlForward
    \/ \E text \in ReplyTexts : RecvText(1, text)

SpecReply == InitRouter /\ [][NextReply]_vars

\* the steps of the emulator thread
EmuStep == EmuRecv \/ EmuDrain \/ EmuThrottle \/ EmuStore \/ EmuSend \/ EmuExit

\* the steps of handle_socket and its send task that wait for nobody
TaskStep(t) == ReadLast(t) \/ SendInitial(t) \/ TaskRecv(t) \/ TaskWsSend(t)

\* One session from the shell's start to its end: the reader reaches EOF, a
\* write to the PTY master may fail, one connection attaches and sends
\* commands.  The control loop has no step for a closed input queue:
\* run_pty itself holds a pty_tx for as long as the loop runs.
NextShell ==
    \/ NextPty(1)
    \/ ReaderEof
    \/ EmuExit
    \/ ControlRecv
    \/ ControlForward
    \/ ControlWriteFails
    \/ NextFrames(1)
    \/ \E text \in CommandTexts : RecvText(1, text)

\* Every thread and task that can take a step eventually takes it; the
\* shell, the PTY and the client are free to do nothing.
SpecShell ==
    /\ Init
    /\ [][NextShell]_vars
    /\ WF_vars(EmuStep)
    /\ WF_vars(ControlStep)
    /\ WF_vars(TaskStep(1))

\* ------------------------------------------------ the session registry

\* ws_handler_with_auth: an authorized request names its session id
WsRequest(c, id) ==
    /\ cPc[c] = "idle"
    /\ cId' = [cId EXCEPT ![c] = id]
    /\ cSess' = [cSess EXCEPT ![c] = 0]
    /\ cPc' = [cPc EXCEPT ![c] = "get"]
    /\ UNCHANGED <<sessions, ptyHosts, shellUp, ptyFailed>>
    /\ UNCHANGED <<sessionVars, hostVars, edgeVars>>

\* get_or_create_session: state.sessions.get(session_id)
GetSession(c) ==
    /\ cPc[c] = "get"
    /\ IF sessions[cId[c]] # 0
       THEN /\ cSess' = [cSess EXCEPT ![c] = sessions[cId[c]]]
            /\ cPc' = [cPc EXCEPT ![c] = "upgrade"]
       ELSE /\ cPc' = [cPc EXCEPT ![c] = "create"]
            /\ UNCHANGED cSess
    /\ UNCHANGED <<sessions, ptyHosts, shellUp, cId, ptyFailed>>
    /\ UNCHANGED <<sessionVars, hostVars, edgeVars>>

\* get_or_create_session: the channels, thread::spawn(run_pty), insert.
\* The spawned run_pty either starts the shell or returns at once, when
\* openpty or spawn_command fails; get_or_create_session does not look.
CreateSession(c) ==
    /\ cPc[c] = "create"
    /\ LET o == Len(ptyHosts) + 1
       IN  /\ ptyHosts' = Append(ptyHosts, cId[c])
           /\ \E started \in BOOLEAN :
                 /\ shellUp' = IF started THEN shellUp \cup {o} ELSE shellUp
                 /\ ptyFailed' = IF started THEN ptyFailed
                                 ELSE ptyFailed \cup {o}
           /\ sessions' = [sessions EXCEPT ![cId[c]] = o]
           /\ cSess' = [cSess EXCEPT ![c] = o]
    /\ cPc' = [cPc EXCEPT ![c] = "upgrade"]
    /\ UNCHANGED cId
    /\ UNCHANGED <<sessionVars, hostVars, edgeVars>>

\* ws.on_upgrade: handle_socket runs with the Session returned
SocketOpen(c) ==
    /\ cPc[c] = "upgrade"
    /\ cPc' = [cPc EXCEPT ![c] = "attached"]
    /\ UNCHANGED <<sessions, ptyHosts, shellUp, cId, cSess, ptyFailed>>
    /\ UNCHANGED <<sessionVars, hostVars, edgeVars>>

\* handle_socket returns after select!: nothing is removed or stopped
SocketClose(c) ==
    /\ cPc[c] = "attached"
    /\ cPc' = [cPc EXCEPT ![c] = "idle"]
    /\ UNCHANGED <<sessions, ptyHosts, shellUp, cId, cSess, ptyFailed>>
    /\ UNCHANGED <<sessionVars, hostVars, edgeVars>>

\* the shell exits: the reader sees EOF
ShellExit(o) ==
    /\ o \in shellUp
    /\ shellUp' = shellUp \ {o}
    /\ UNCHANGED <<sessions, ptyHosts, cPc, cId, cSess, ptyFailed>>
    /\ UNCHANGED <<sessionVars, hostVars, edgeVars>>

\* AppState::sessions at server start: DashMap::new()
InitRegistry ==
    /\ sessions = [i \in Ids |-> 0]
    /\ ptyHosts = <<>>
    /\ shellUp = {}
    /\ cPc = [c \in Callers |-> "idle"]
    /\ cId = [c \in Callers |-> 1]
    /\ cSess = [c \in Callers |-> 0]
    /\ ptyFailed = {}

NextRegistry ==
    \/ \E c \in Callers, id \in Ids : WsRequest(c, id)
    \/ \E c \in Callers : GetSession(c)
    \/ \E c \in Callers : CreateSession(c)
    \/ \E c \in Callers : SocketOpen(c)
    \/ \E c \in Callers : SocketClose(c)
    \/ \E o \in shellUp : ShellExit(o)

\* The registry and the requests that reach it; a Session is seen from
\* outside (its object, its id, whether its shell runs).
InitAtStart == InitSession(RingCap) /\ InitRegistry /\ InitEdge

SpecRegistry == InitAtStart /\ [][NextRegistry]_vars

\* The same, where a request that is inside get_or_create_session or
\* waits for its upgrade eventually goes on; clients and shells are free to
\* do nothing.
SpecRegistryLive ==
    /\ InitAtStart
    /\ [][NextRegistry]_vars
    /\ WF_vars(\E c \in Callers : GetSession(c))
    /\ WF_vars(\E c \in Callers : CreateSession(c))
    /\ WF_vars(\E c \in Callers : SocketOpen(c))

\* ------------------------------------------- the emulator and build_frame

\* x as u16
AsU16(x) == x % Limb

\* the smaller and the larger of two numbers
Lesser(a, b) == IF a < b THEN a ELSE b
Greater(a, b) == IF a > b THEN a ELSE b

\* a * b in usize for a, b < 2^16, as <<high limb, low limb>>
TimesUsize(a, b) ==
    LET p1 == a * (b \div 256)
        p0 == a * (b % 256)
        low == (p1 % 256) * 256 + p0
    IN  <<(p1 \div 256) + (low \div Limb), low % Limb>>

\* mutant: the product is taken in u16 and wraps
TimesU16(a, b) == <<0, (((a * (b \div 256)) % 256) * 256 + a * (b % 256)) % Limb>>

\* the cols and rows of a resize message (u16), sampled: the ends of the
\* range, the smallest grid, and a size whose product exceeds 2^16
ResizeDims == {0, 1, 300, Limb - 1}

\* the deltas of a scroll message (i32), sampled
ScrollDeltas == {-2, -1, 1, 2}

\* the columns and the lines a cursor is sampled at in a grid of that size
CursorCols(cols) == {0, cols - 1} \cup (IF cols > 1 THEN {1} ELSE {})
CursorLines(rows) == {0, rows - 1}

\* Term::scroll_display(Scroll::Delta(delta)): the display offset moves by
\* delta and stays within the scrollback
ScrollDisplay(t, delta) ==
    [t EXCEPT !.offset = Greater(0, Lesser(t.offset + delta, t.history))]

\* mutant: the cursor's row is not checked against the viewport
CursorRowAlwaysInView(row, rows) == TRUE

\* !(row < 0 || row >= rows as i32)
CursorRowInView(row, rows) == ~(row < 0 \/ row >= rows)

\* mutant: the frame keeps the size of the first grid
ColumnsAtStart(t) == NewTerm.cols

\* term.columns() as u16
Columns(t) == AsU16(t.cols)

\* term.screen_lines() as u16
ScreenLines(t) == AsU16(t.rows)

\* vec![ServerCell::default(); (cols as usize) * (rows as usize)].len()
CellsLen(cols, rows) == TimesUsize(cols, rows)

\* build_frame(&term)
BuildFrame(t) ==
    LET cols == Columns(t)
        rows == ScreenLines(t)
        display_offset == t.offset
        row == t.line + display_offset
        shown == ~t.hidden /\ CursorRowInView(row, rows)
    IN  [built |-> TRUE,
         cols |-> cols,
         rows |-> rows,
         cursor_col |-> IF shown THEN AsU16(t.col) ELSE 0,
         cursor_row |-> IF shown THEN AsU16(row) ELSE 0,
         cursor_visible |-> shown,
         cells_len |-> CellsLen(cols, rows)]

\* the emulator thread holds a usable Term and has no frame in hand
TermReady == term.alive

\* processor.advance(&mut term, &data): the library moves the cursor in the
\* grid, shows or hides it, and grows or clears the scrollback; on a grid
\* without lines it changes nothing or panics
AdvanceTerm ==
    /\ TermReady
    /\ IF term.rows = 0
       THEN \E ok \in BOOLEAN : term' = [term EXCEPT !.alive = ok]
       ELSE \E col \in CursorCols(term.cols), line \in CursorLines(term.rows),
               hidden \in BOOLEAN, history \in 0..MaxHistory :
               \E offset \in 0..history :
                  term' = [term EXCEPT !.col = col, !.line = line,
                                       !.hidden = hidden,
                                       !.history = history,
                                       !.offset = offset]
    /\ frame' = NoFrame
    /\ UNCHANGED <<resized, master, cHdr, auth, client, probe>>
    /\ UNCHANGED <<sessionVars, registryVars, hostVars>>

\* term.resize(TermSize { cols: cols as usize, rows: rows as usize }): the
\* same size is ignored; a grid without columns panics in the library; a
\* grid without lines panics or is taken; otherwise the grid has the new
\* size, the cursor is inside it and the display offset inside the
\* scrollback
ResizeTerm(cols, rows) ==
    /\ TermReady
    /\ Len(resized) < MaxBurst
    /\ resized' = Append(resized, <<cols, rows>>)
    /\ IF cols = term.cols /\ rows = term.rows
       THEN term' = term
       ELSE IF cols = 0
       THEN term' = [term EXCEPT !.alive = FALSE]
       ELSE IF rows = 0
       THEN \E ok \in BOOLEAN :
               term' = [term EXCEPT !.alive = ok, !.cols = cols, !.rows = 0,
                                    !.col = Lesser(@, cols - 1),
                                    !.line = -1]
       ELSE \E col \in CursorCols(cols), line \in CursorLines(rows),
               history \in 0..MaxHistory :
               \E offset \in 0..history :
                  term' = [term EXCEPT !.cols = cols, !.rows = rows,
                                       !.col = col, !.line = line,
                                       !.history = history,
                                       !.offset = offset]
    /\ frame' = NoFrame
    /\ UNCHANGED <<master, cHdr, auth, client, probe>>
    /\ UNCHANGED <<sessionVars, registryVars, hostVars>>

\* term.scroll_display(Scroll::Delta(delta))
ScrollTerm(delta) ==
    /\ TermReady
    /\ term' = ScrollDisplay(term, delta)
    /\ frame' = NoFrame
    /\ UNCHANGED <<resized, master, cHdr, auth, client, probe>>
    /\ UNCHANGED <<sessionVars, registryVars, hostVars>>

\* let frame = build_frame(&term), after the queue has been drained
BuildTermFrame ==
    /\ TermReady
    /\ frame = NoFrame
    /\ frame' = BuildFrame(term) @@ [after |-> resized]
    /\ resized' = <<>>
    /\ UNCHANGED <<term, master, cHdr, auth, client, probe>>
    /\ UNCHANGED <<sessionVars, registryVars, hostVars>>

NextTerm ==
    \/ AdvanceTerm
    \/ \E cols \in ResizeDims, rows \in ResizeDims : ResizeTerm(cols, rows)
    \/ \E delta \in ScrollDeltas : ScrollTerm(delta)
    \/ BuildTermFrame

\* The emulator thread seen at the level of the Term it owns: any sequence
\* of Data, Resize and Scroll commands, and the frames built in between.
SpecTerm == Init /\ [][NextTerm]_vars

\* --------------------------------------------- colours and convert_cell

\* u8 arithmetic: the value kept, and whether the exact value fits
U8(x) == x % 256
FitsU8(x) == x >= 0 /\ x < 256

\* const ANSI_16: [[u8; 3]; 16]; ANSI_16[i] is Ansi16[i + 1]
Ansi16 == << <<0, 0, 0>>, <<205, 49, 49>>, <<13, 188, 121>>,
             <<229, 229, 16>>, <<36, 114, 200>>, <<188, 63, 188>>,
             <<17, 168, 205>>, <<229, 229, 229>>, <<102, 102, 102>>,
             <<241, 76, 76>>, <<35, 209, 139>>, <<245, 245, 67>>,
             <<59, 142, 234>>, <<214, 112, 214>>, <<41, 184, 219>>,
             <<255, 255, 255>> >>

\* const DEFAULT_FG, DEFAULT_BG
DefaultFg == <<229, 229, 229>>
DefaultBg == <<30, 30, 30>>

\* mutant: the cube uses the xterm step of 40 with an offset of 55
CubeLevelXterm(q) == IF q = 0 THEN 0 ELSE q * 40 + 55

\* the exact value of a cube channel: (..) * 51
CubeLevel(q) == q * 51

\* the exact value of a grey: (idx - 232) * 10 + 8
GreyLevel(idx) == (idx - 232) * 10 + 8

\* the exact channel values color_256 computes for idx >= 16
Color256Exact(idx) ==
    IF idx <= 231
    THEN LET i == idx - 16
         IN  <<CubeLevel(i \div 36), CubeLevel((i \div 6) % 6),
               CubeLevel(i % 6)>>
    ELSE <<GreyLevel(idx), GreyLevel(idx), GreyLevel(idx)>>

\* color_256(idx): the sixteen literal arms, the cube and the grey ramp
Color256(idx) ==
    CASE idx = 0 -> <<0, 0, 0>>
      [] idx = 1 -> <<205, 49, 49>>
      [] idx = 2 -> <<13, 188, 121>>
      [] idx = 3 -> <<229, 229, 16>>
      [] idx = 4 -> <<36, 114, 200>>
      [] idx = 5 -> <<188, 63, 188>>
      [] idx = 6 -> <<17, 168, 205>>
      [] idx = 7 -> <<229, 229, 229>>
      [] idx = 8 -> <<102, 102, 102>>
      [] idx = 9 -> <<241, 76, 76>>
      [] idx = 10 -> <<35, 209, 139>>
      [] idx = 11 -> <<245, 245, 67>>
      [] idx = 12 -> <<59, 142, 234>>
      [] idx = 13 -> <<214, 112, 214>>
      [] idx = 14 -> <<41, 184, 219>>
      [] idx = 15 -> <<255, 255, 255>>
      [] OTHER -> [ch \in 1..3 |-> U8(Color256Exact(idx)[ch])]

\* an arithmetic step of color_256(idx) leaves the u8 range
Color256Overflows(idx) ==
    idx >= 16 /\ \E ch \in 1..3 : ~FitsU8(Color256Exact(idx)[ch])

\* dim_color(color): each channel * 2 / 3, computed in u16
DimColor(color) == [ch \in 1..3 |-> U8((color[ch] * 2) \div 3)]

\* NamedColor, in the order resolve_named_color lists them
NamedColors ==
    <<"Foreground", "Background", "Cursor", "BrightForeground",
      "DimForeground", "Black", "Red", "Green", "Yellow", "Blue", "Magenta",
      "Cyan", "White", "BrightBlack", "BrightRed", "BrightGreen",
      "BrightYellow", "BrightBlue", "BrightMagenta", "BrightCyan",
      "BrightWhite", "DimBlack", "DimRed", "DimGreen", "DimYellow",
      "DimBlue", "DimMagenta", "DimCyan", "DimWhite">>

\* the position of a name in NamedColors
NamedIndex(named) == CHOOSE i \in 1..Len(NamedColors) : NamedColors[i] = named

\* resolve_named_color(named)
ResolveNamedColor(named) ==
    LET i == NamedIndex(named)
    IN  CASE named = "Foreground" -> DefaultFg
          [] named = "Background" -> DefaultBg
          [] named = "Cursor" -> DefaultFg
          [] named = "BrightForeground" -> Ansi16[16]
          [] named = "DimForeground" -> DimColor(DefaultFg)
          [] i \in 6..21 -> Ansi16[i - 5]
          [] OTHER -> DimColor(Ansi16[i - 21])

\* resolve_color(color, colors): colors is the emulator's table of
\* overridden named colours
ResolveColor(color, colors) ==
    CASE color.kind = "Spec" -> color.rgb
      [] color.kind = "Indexed" -> Color256(color.idx)
      [] OTHER -> IF color.named \in DOMAIN colors
                  THEN colors[color.named]
                  ELSE ResolveNamedColor(color.named)

\* Flags::ALL_UNDERLINES
AllUnderlines == {"UNDERLINE", "DOUBLE_UNDERLINE", "UNDERCURL",
                  "DOTTED_UNDERLINE", "DASHED_UNDERLINE"}

\* mutant: the colours are never swapped
KeepOrder(inverse, fg, bg) == <<fg, bg>>

\* if flags.contains(INVERSE) { std::mem::swap(&mut fg, &mut bg) }
SwapIfInverse(inverse, fg, bg) == IF inverse THEN <<bg, fg>> ELSE <<fg, bg>>

\* convert_cell(cell, colors)
ConvertCell(cell, colors) ==
    LET flags == cell.flags
        fg == ResolveColor(cell.fg, colors)
        bg == ResolveColor(cell.bg, colors)
        pair == SwapIfInverse("INVERSE" \in flags, fg, bg)
    IN  [c |-> IF "WIDE_CHAR_SPACER" \in flags THEN " " ELSE cell.c,
         fg |-> pair[1],
         bg |-> pair[2],
         bold |-> "BOLD" \in flags,
         italic |-> "ITALIC" \in flags,
         underline |-> flags \cap AllUnderlines # {},
         inverse |-> "INVERSE" \in flags]

\* the colours a cell is sampled with: a true colour, the palette at its
\* three ranges, default, plain, bright and dim names
SampleColors ==
    {[kind |-> "Spec", rgb |-> <<1, 2, 3>>]}
    \cup {[kind |-> "Indexed", idx |-> i] : i \in {1, 16, 231, 255}}
    \cup {[kind |-> "Named", named |-> n] :
            n \in {"Foreground", "Background", "Red", "DimRed"}}

\* the flag sets a cell is sampled with
SampleFlags == SUBSET {"INVERSE", "BOLD", "UNDERLINE", "WIDE_CHAR_SPACER"}

\* the colour tables: nothing overridden, or the default foreground set
SampleTables == {<<>>, [n \in {"Foreground"} |-> <<9, 9, 9>>]}

\* every palette index, and color_256 not yet called
InitColor ==
    /\ InitSession(RingCap) /\ InitRegistryOne
    /\ term = NewTerm /\ frame = NoFrame /\ resized = <<>>
    /\ master = NoResize
    /\ cHdr = [c \in Callers |-> "none"]
    /\ auth = OpenAuth
    /\ client = NewTransport
    /\ probe \in {[fn |-> "color_256", idx |-> i, done |-> FALSE] :
                    i \in 0..255}

\* color_256(idx) is called
CallColor256 ==
    /\ probe.fn = "color_256" /\ ~probe.done
    /\ probe' = [fn |-> "color_256", idx |-> probe.idx, done |-> TRUE,
                 out |-> Color256(probe.idx),
                 overflow |-> Color256Overflows(probe.idx)]
    /\ UNCHANGED <<term, frame, resized, master, cHdr, auth, client>>
    /\ UNCHANGED <<sessionVars, registryVars, hostVars>>

\* color_256 on each of its 256 inputs
SpecColor == InitColor /\ [][CallColor256]_vars

\* sampled emulator cells, and convert_cell not yet called
InitCell ==
    /\ InitSession(RingCap) /\ InitRegistryOne
    /\ term = NewTerm /\ frame = NoFrame /\ resized = <<>>
    /\ master = NoResize
    /\ cHdr = [c \in Callers |-> "none"]
    /\ auth = OpenAuth
    /\ client = NewTransport
    /\ probe \in {[fn |-> "convert_cell", done |-> FALSE, colors |-> tbl,
                   cell |-> [c |-> "x", fg |-> fg, bg |-> bg, flags |-> fl]] :
                    fg \in SampleColors, bg \in SampleColors,
                    fl \in SampleFlags, tbl \in SampleTables}

\* convert_cell(cell, colors) is called
CallConvertCell ==
    /\ probe.fn = "convert_cell" /\ ~probe.done
    /\ probe' = [fn |-> "convert_cell", done |-> TRUE,
                 colors |-> probe.colors, cell |-> probe.cell,
                 out |-> ConvertCell(probe.cell, probe.colors)]
    /\ UNCHANGED <<term, frame, resized, master, cHdr, auth, client>>
    /\ UNCHANGED <<sessionVars, registryVars, hostVars>>

\* convert_cell on sampled cells
SpecCell == InitCell /\ [][CallConvertCell]_vars

\* ------------------------------------------------ the authorization gate

\* the session cookies a request may carry; "none" is no cookie
Cookies == {"none", "a"}

\* AuthState::is_registered
IsRegistered(a) == IF a.ip THEN FALSE ELSE a.credential # 0

\* mutant: a session is valid for as long as it is in the map
IsSessionKnown(a, cookie) == \E e \in a.sessions : e.id = cookie

\* AuthState::is_session_valid: the id is in the map and its expiry is
\* later than now
IsSessionValid(a, cookie) ==
    \E e \in a.sessions : e.id = cookie /\ e.expiry > a.clock

\* AuthState::validate_setup_token
ValidateSetupToken(a, token) == a.token # 0 /\ a.token = token

\* auth::check_auth_from_headers(&state.auth, &headers)
CheckAuthFromHeaders(a, cookie) ==
    IF a.ip THEN TRUE
    ELSE IF ~IsRegistered(a) THEN TRUE
    ELSE IF cookie # "none" THEN IsSessionValid(a, cookie)
    ELSE FALSE

\* mutant: the handler goes on whatever the check returned
AdmittedAlways(ok) == TRUE

\* if !check_auth_from_headers(..) { return UNAUTHORIZED }
Admitted(ok) == ok

\* GET /ws: ws_handler_with_auth checks the request, answers 401 or goes on
\* to get_or_create_session
WsHandlerWithAuth(c, id, cookie) ==
    /\ cPc[c] = "idle"
    /\ LET ok == CheckAuthFromHeaders(auth, cookie)
       IN  /\ cHdr' = [cHdr EXCEPT ![c] = [cookie |-> cookie, passed |-> ok]]
           /\ IF Admitted(ok)
              THEN /\ cId' = [cId EXCEPT ![c] = id]
                   /\ cSess' = [cSess EXCEPT ![c] = 0]
                   /\ cPc' = [cPc EXCEPT ![c] = "get"]
              ELSE UNCHANGED <<cId, cSess, cPc>>
    /\ UNCHANGED <<sessions, ptyHosts, shellUp, ptyFailed>>
    /\ UNCHANGED <<term, frame, resized, master, auth, client, probe>>
    /\ UNCHANGED <<sessionVars, hostVars>>

\* AuthState::create_session: a new random id, valid for
\* SESSION_DURATION_SECS from now, is put in the map
create_session(a, id) ==
    [a EXCEPT !.sessions = @ \cup {[id |-> id, expiry |-> a.clock + SessionSecs]},
              !.issued = @ \cup {id}]

\* the ids generate_token can still return: a 32-character random id does
\* not repeat
FreshIds(ids) == {id \in ids : id # "none" /\ id \notin auth.issued}

\* POST /api/auth/register/start: start_registration stores a challenge.
\* The route asks for no token and no session; only webauthn() fails, in
\* IP mode
StartRegistration ==
    /\ ~auth.ip
    /\ ~auth.reg
    /\ auth' = [auth EXCEPT !.reg = TRUE]
    /\ UNCHANGED <<term, frame, resized, master, cHdr, client, probe>>
    /\ UNCHANGED <<sessionVars, registryVars, hostVars>>

\* mutant: a credential, once stored, is kept
StoreIfNone(a, key) == IF a.credential = 0 THEN key ELSE a.credential

\* *self.inner.credential.write().await = Some(credential)
StoreCredential(a, key) == key

\* POST /api/auth/register/finish: finish_registration takes the challenge,
\* verifies the authenticator's answer (ok), stores its passkey and clears
\* the setup token; api_register_finish then creates a login session
FinishRegistration(key, id, ok) ==
    /\ auth.reg
    /\ auth' = IF ok
               THEN create_session([auth EXCEPT !.reg = FALSE,
                                                !.credential =
                                                    StoreCredential(auth, key),
                                                !.token = 0], id)
               ELSE [auth EXCEPT !.reg = FALSE]
    /\ UNCHANGED <<term, frame, resized, master, cHdr, client, probe>>
    /\ UNCHANGED <<sessionVars, registryVars, hostVars>>

\* POST /api/auth/login/start: start_authentication needs a credential
StartAuthentication ==
    /\ ~auth.ip
    /\ auth.credential # 0
    /\ ~auth.login
    /\ auth' = [auth EXCEPT !.login = TRUE]
    /\ UNCHANGED <<term, frame, resized, master, cHdr, client, probe>>
    /\ UNCHANGED <<sessionVars, registryVars, hostVars>>

\* POST /api/auth/login/finish: finish_authentication takes the challenge,
\* verifies the assertion (ok) and creates a login session
FinishAuthentication(id, ok) ==
    /\ auth.login
    /\ auth' = IF ok THEN create_session([auth EXCEPT !.login = FALSE], id)
               ELSE [auth EXCEPT !.login = FALSE]
    /\ UNCHANGED <<term, frame, resized, master, cHdr, client, probe>>
    /\ UNCHANGED <<sessionVars, registryVars, hostVars>>

\* POST /api/auth/lock: lock_system, sessions.clear()
LockSystem ==
    /\ auth.sessions # {}
    /\ auth' = [auth EXCEPT !.sessions = {}, !.revoked = auth.issued]
    /\ UNCHANGED <<term, frame, resized, master, cHdr, client, probe>>
    /\ UNCHANGED <<sessionVars, registryVars, hostVars>>

\* SystemTime::now() advances by a second
AuthTick ==
    /\ auth.clock < MaxSecs
    /\ auth' = [auth EXCEPT !.clock = @ + 1]
    /\ UNCHANGED <<term, frame, resized, master, cHdr, client, probe>>
    /\ UNCHANGED <<sessionVars, registryVars, hostVars>>

\* the passkeys an authenticator may offer, and the setup tokens
Keys == {1, 2}
Tokens == {1, 2}

\* AuthState::new, followed by reset_auth when --reset-auth is given
\* (main.rs:143-149): IP mode has no credential and no token unless reset;
\* domain mode has the credential of passkey.json and no token, or no
\* credential and a new token
StartAuths ==
    {NewAuth(TRUE, 0, t) : t \in {0} \cup Tokens}
    \cup {NewAuth(FALSE, 0, t) : t \in Tokens}
    \cup {NewAuth(FALSE, k, 0) : k \in Keys}

\* the server at start, its auth state one of auths: no terminal session
InitGate(auths) ==
    /\ InitSession(RingCap) /\ InitRegistry
    /\ term = NewTerm /\ frame = NoFrame /\ resized = <<>>
    /\ master = NoResize
    /\ cHdr = [c \in Callers |-> [cookie |-> "none", passed |-> FALSE]]
    /\ auth \in auths
    /\ client = NewTransport
    /\ probe = NoProbe

\* IP mode or not, a passkey stored or not
InitAuth ==
    InitGate({NewAuth(TRUE, 0, 0), NewAuth(FALSE, 0, 1), NewAuth(FALSE, 1, 0)})

NextAuth ==
    \/ \E c \in Callers, id \in Ids, cookie \in Cookies :
          WsHandlerWithAuth(c, id, cookie)
    \/ \E c \in Callers : GetSession(c)
    \/ \E c \in Callers : CreateSession(c)
    \/ \E c \in Callers : SocketOpen(c)
    \/ \E c \in Callers : SocketClose(c)
    \/ StartRegistration
    \/ \E id \in FreshIds(Cookies), ok \in BOOLEAN :
          FinishRegistration(1, id, ok)
    \/ StartAuthentication
    \/ \E id \in FreshIds(Cookies), ok \in BOOLEAN :
          FinishAuthentication(id, ok)
    \/ LockSystem

\* WebSocket requests with and without a valid cookie, while passkeys are
\* registered, logins succeed and the system is locked.
SpecAuth == InitAuth /\ [][NextAuth]_vars

\* the session cookies of the specification with the wall clock
PassCookies == {"none", "a", "b"}

InitPasskey == InitGate(StartAuths)

\* One browser at a time asks for the WebSocket while passkeys are
\* registered, logins succeed or fail, the system is locked and the wall
\* clock runs past the expiry of a login session.
NextPasskey ==
    \/ \E cookie \in PassCookies : WsHandlerWithAuth(1, 1, cookie)
    \/ GetSession(1)
    \/ CreateSession(1)
    \/ SocketOpen(1)
    \/ SocketClose(1)
    \/ StartRegistration
    \/ \E key \in Keys, id \in FreshIds(PassCookies), ok \in BOOLEAN :
          FinishRegistration(key, id, ok)
    \/ StartAuthentication
    \/ \E id \in FreshIds(PassCookies), ok \in BOOLEAN :
          FinishAuthentication(id, ok)
    \/ LockSystem
    \/ AuthTick

SpecPasskey == InitPasskey /\ [][NextPasskey]_vars

\* ------------------------------------------------------- the wire formats

\* ServerCell values a frame is sampled with: the default cell, a coloured
\* bold inverse letter, and an underlined italic sign
SampleCells ==
    {[c |-> " ", fg |-> DefaultFg, bg |-> DefaultBg, bold |-> FALSE,
      italic |-> FALSE, underline |-> FALSE, inverse |-> FALSE],
     [c |-> "H", fg |-> <<0, 0, 0>>, bg |-> <<255, 255, 255>>, bold |-> TRUE,
      italic |-> FALSE, underline |-> FALSE, inverse |-> TRUE],
     [c |-> "#", fg |-> <<205, 49, 49>>, bg |-> DefaultBg, bold |-> FALSE,
      italic |-> TRUE, underline |-> TRUE, inverse |-> FALSE]}

\* the grids a frame is sampled with, as <<cols, rows>>
SampleGrids == {<<1, 1>>, <<2, 1>>, <<1, 2>>}

\* ServerFrame values: every sampled grid filled with sampled cells, the
\* cursor shown or not, at the origin or at the largest u16
SampleFrames ==
    UNION {{[cols |-> g[1], rows |-> g[2], cursor_col |-> cc,
             cursor_row |-> 0, cursor_visible |-> cv, cells |-> cells] :
               cells \in [1..(g[1] * g[2]) -> SampleCells],
               cc \in {0, Limb - 1}, cv \in BOOLEAN} : g \in SampleGrids}

\* the fields of ServerCell / Cell and of ServerFrame / TerminalFrame, in
\* declaration order
CellFields == <<"c", "fg", "bg", "bold", "italic", "underline", "inverse">>
FrameFields ==
    <<"cols", "rows", "cursor_col", "cursor_row", "cursor_visible", "cells">>

\* a struct as serde_json writes it: its members, name and value, in order
JsonObject(fields, value) ==
    [i \in 1..Len(fields) |-> <<fields[i], value[fields[i]]>>]

\* serde_json::to_string(&ServerMessage::Frame(frame)): an internally
\* tagged enum is the struct's object with the member "type" in front
EncodeJson(f) ==
    <<<<"type", "frame">>>>
    \o JsonObject(FrameFields,
                  [f EXCEPT !.cells =
                      [i \in 1..Len(f.cells) |->
                          JsonObject(CellFields, f.cells[i])]])

\* the members of a JSON object with that name
Members(obj, name) == {i \in 1..Len(obj) : obj[i][1] = name}

\* the value of the member with that name
Member(obj, name) == obj[CHOOSE i \in Members(obj, name) : TRUE][2]

\* a struct read from a JSON object: every field by its name
FromJsonObject(fields, obj) ==
    [name \in {fields[i] : i \in 1..Len(fields)} |-> Member(obj, name)]

\* every field of the struct is a member of the object
HasFields(fields, obj) ==
    \A i \in 1..Len(fields) : Members(obj, fields[i]) # {}

\* serde_json::from_str::<ServerMessage>(&text) of the client: the tag
\* selects the variant, the other members fill TerminalFrame
DecodeJson(obj) ==
    IF /\ Members(obj, "type") # {}
       /\ Member(obj, "type") = "frame"
       /\ HasFields(FrameFields, obj)
       /\ \A i \in 1..Len(Member(obj, "cells")) :
             HasFields(CellFields, Member(obj, "cells")[i])
    THEN LET flat == FromJsonObject(FrameFields, obj)
         IN  [ok |-> TRUE,
              frame |-> [flat EXCEPT !.cells =
                           [i \in 1..Len(flat.cells) |->
                               FromJsonObject(CellFields, flat.cells[i])]]]
    ELSE [ok |-> FALSE]

\* the values of a struct in field order, as bincode writes them (no names)
BincodeStruct(fields, value) == [i \in 1..Len(fields) |-> value[fields[i]]]

\* the concatenation of the cells' encodings
RECURSIVE BincodeCells(_)
BincodeCells(cells) ==
    IF cells = <<>> THEN <<>>
    ELSE BincodeStruct(CellFields, Head(cells)) \o BincodeCells(Tail(cells))

\* bincode::serialize(&ServerMessage::Frame(frame)): the tag written as a
\* string, the scalar fields, the length of cells and the cells
EncodeBincode(f) ==
    <<"frame", f.cols, f.rows, f.cursor_col, f.cursor_row, f.cursor_visible,
      Len(f.cells)>> \o BincodeCells(f.cells)

\* the formats whose Deserializer implements deserialize_any
SelfDescribing == {"json"}

\* bincode::deserialize::<ServerMessage>(&bytes) of the client: the derived
\* Deserialize of an internally tagged enum asks for deserialize_any, which
\* bincode answers with ErrorKind::DeserializeAnyNotSupported
DecodeBincode(bytes) ==
    IF "bincode" \in SelfDescribing
    THEN [ok |-> TRUE,
          frame |-> [cols |-> bytes[2], rows |-> bytes[3],
                     cursor_col |-> bytes[4], cursor_row |-> bytes[5],
                     cursor_visible |-> bytes[6],
                     cells |-> [i \in 1..bytes[7] |->
                        [k \in 1..7 |-> bytes[7 + (i - 1) * 7 + k]]]]]
    ELSE [ok |-> FALSE]

\* sampled frames, not yet encoded
InitWire ==
    /\ InitSession(RingCap) /\ InitRegistryOne
    /\ term = NewTerm /\ frame = NoFrame /\ resized = <<>>
    /\ master = NoResize
    /\ cHdr = [c \in Callers |-> "none"]
    /\ auth = OpenAuth
    /\ client = NewTransport
    /\ probe \in {[fn |-> "wire", done |-> FALSE, frame |-> f] :
                    f \in SampleFrames}

\* the server encodes the frame in both formats and the client decodes each
EncodeAndDecode ==
    /\ probe.fn = "wire" /\ ~probe.done
    /\ probe' = [fn |-> "wire", done |-> TRUE, frame |-> probe.frame,
                 json |-> DecodeJson(EncodeJson(probe.frame)),
                 bin |-> DecodeBincode(EncodeBincode(probe.frame))]
    /\ UNCHANGED <<term, frame, resized, master, cHdr, auth, client>>
    /\ UNCHANGED <<sessionVars, registryVars, hostVars>>

\* frames through the server's encoders and the client's decoders
SpecWire == InitWire /\ [][EncodeAndDecode]_vars

\* -------------------------------------------------- the client's Transport

\* the values set_max_frames is called with
MaxFramesChoices == 0..MaxLimit

\* what a WebSocket message carries: a JSON frame, a bincode frame, or a
\* text that is no ServerMessage
Payloads == {"json", "bincode", "garbage"}

\* serde_json::from_str / bincode::deserialize of the payload returns Ok
Decodes(payload) ==
    CASE payload = "json" -> TRUE
      [] payload = "bincode" -> "bincode" \in SelfDescribing
      [] OTHER -> FALSE

\* without the early return the frame that arrives replaces the oldest
\* queued frame
QueueFullNever(len, limit) == FALSE

\* if limit > 0 { if buffer.borrow().len() >= limit { return; } }
QueueFull(len, limit) == limit > 0 /\ len >= limit

\* while buf.len() >= limit { buf.pop_front(); }
RECURSIVE PopWhileFull(_, _)
PopWhileFull(buf, limit) ==
    IF limit > 0 /\ Len(buf) >= limit
    THEN PopWhileFull(Tail(buf), limit)
    ELSE buf

\* the onmessage closure: the n-th message arrives
OnMessage(payload) ==
    /\ client.offered < MaxIncoming
    /\ LET limit == client.max
           n == client.offered + 1
       IN  client' =
              [client EXCEPT
                 !.offered = n,
                 !.last = payload,
                 !.newest = IF payload \in {"json", "bincode"} THEN n ELSE @,
                 !.drained = FALSE,
                 !.buf = IF QueueFull(Len(@), limit) \/ ~Decodes(payload)
                         THEN @
                         ELSE Append(PopWhileFull(@, limit), n)]
    /\ UNCHANGED <<term, frame, resized, master, cHdr, auth, probe>>
    /\ UNCHANGED <<sessionVars, registryVars, hostVars>>

\* Transport::try_recv: recv_buffer.pop_front()
TryRecv ==
    /\ client.buf # <<>>
    /\ client' = [client EXCEPT !.buf = Tail(@)]
    /\ UNCHANGED <<term, frame, resized, master, cHdr, auth, probe>>
    /\ UNCHANGED <<sessionVars, registryVars, hostVars>>

\* Transport::set_max_frames(max_frames): self.max_frames.set(max_frames)
SetMaxFrames(max_frames) ==
    /\ client' = [client EXCEPT !.max = max_frames]
    /\ UNCHANGED <<term, frame, resized, master, cHdr, auth, probe>>
    /\ UNCHANGED <<sessionVars, registryVars, hostVars>>

\* Terminal::apply_frame: cols, rows, grid and cursor are replaced by the
\* frame's
apply_frame(grid, f) == f

\* while let Some(frame) = transport.try_recv() { apply_frame(frame) }
RECURSIVE ApplyAll(_, _)
ApplyAll(grid, buf) ==
    IF buf = <<>> THEN grid
    ELSE ApplyAll(apply_frame(grid, Head(buf)), Tail(buf))

\* NoirTTYWeb::render: the queue is drained into the terminal
Render ==
    /\ client' = [client EXCEPT !.grid = ApplyAll(@, client.buf),
                                !.buf = <<>>,
                                !.drained = TRUE]
    /\ UNCHANGED <<term, frame, resized, master, cHdr, auth, probe>>
    /\ UNCHANGED <<sessionVars, registryVars, hostVars>>

\* the frames the server sends as Text messages (format=json), and a text
\* that is no ServerMessage
TextPayloads == {"json", "garbage"}

NextRender ==
    \/ \E payload \in TextPayloads : OnMessage(payload)
    \/ Render
    \/ \E max_frames \in MaxFramesChoices : SetMaxFrames(max_frames)

\* A connected page in the default JSON format: messages arrive, every
\* animation frame calls render(), the page changes the limit.
SpecRender == Init /\ [][NextRender]_vars

NextClient ==
    \/ \E payload \in Payloads : OnMessage(payload)
    \/ TryRecv
    \/ \E max_frames \in MaxFramesChoices : SetMaxFrames(max_frames)

\* A connected Transport: messages arrive, the renderer takes frames, the
\* page changes the limit.
SpecClient == Init /\ [][NextClient]_vars

\* ============================================================ claims

\* ---- C1 (as claimed): for two concurrent get_or_create_session calls
\* with the same id on a registry that does not hold it, exactly one PTY
\* host is started for the id and both callers receive the same Session.
C1_OneSessionPerId ==
    /\ \A o1, o2 \in DOMAIN ptyHosts :
          ptyHosts[o1] = ptyHosts[o2] => o1 = o2
    /\ \A c1, c2 \in Callers :
          (/\ cPc[c1] \in {"upgrade", "attached"}
           /\ cPc[c2] \in {"upgrade", "attached"}
           /\ cId[c1] = cId[c2]) => cSess[c1] = cSess[c2]

\* ---- C2 (as claimed): on a transport that subscribed while last_frame
\* was non-empty, the first message sent is the frame last_frame held at the
\* moment of subscription.
C2_FirstIsLastAtSubscribe ==
    \A t \in Transports :
        (subInfo[t].last # 0 /\ Len(sent[t]) >= 1)
            => sent[t][1] = subInfo[t].last

\* ---- C3 (as claimed): the frames sent on a transport are in publication
\* order: no frame is sent after a frame published later than it.
C3_SentInPublicationOrder ==
    \A t \in Transports :
        \A i, j \in DOMAIN sent[t] : i < j => sent[t][i] <= sent[t][j]

\* the transport attached after frame F was published and the emulator
\* loop had gone idle, and no PTY output has arrived since
AttachedInQuiet(t) ==
    /\ tPc[t] # "idle"
    /\ subInfo[t].quiet
    /\ subInfo[t].last # 0
    /\ cmdCount = subInfo[t].cmds

\* ---- C4: a transport that attaches after F was published, with no PTY
\* output since, is sent F exactly once: F is its first message and no
\* second copy comes through the broadcast subscription.
C4_ReattachSendsLastOnce ==
    \A t \in Transports :
        AttachedInQuiet(t) =>
            /\ sent[t] \in {<<>>, <<subInfo[t].last>>}
            /\ (tPc[t] \in {"recv", "wsSend"} /\ wsOpen[t])
                   => sent[t] = <<subInfo[t].last>>
            /\ tPc[t] # "wsSend"
            /\ got[t] = <<>>
            /\ rxNext[t] > tail

\* C4's case: A attached and was closed, B attached afterwards in quiet and
\* has been sent F
C4_Witness ==
    \E a, b \in Transports :
        /\ a # b
        /\ tPc[a] # "idle" /\ ~wsOpen[a]
        /\ Len(sent[a]) >= 1
        /\ AttachedInQuiet(b)
        /\ subInfo[b].tail >= 1
        /\ published[tail] = subInfo[b].last
        /\ tPc[b] = "recv" /\ wsOpen[b]
        /\ sent[b] = <<subInfo[b].last>>

\* ---- C5 (as claimed): once every transport of a session has detached
\* while its shell runs, the session stays in the registry and no new PTY is
\* started for its id.
C5_DetachedSessionStays ==
    [][\A id \in Ids :
         LET o == sessions[id]
         IN  (/\ o # 0
              /\ o \in shellUp /\ o \in shellUp'
              /\ \E c \in Callers : cPc[c] = "idle" /\ cSess[c] = o
              /\ \A c \in Callers :
                    cPc[c] \in {"upgrade", "attached"} => cSess[c] # o)
             => /\ sessions'[id] = o
                /\ \A h \in DOMAIN ptyHosts' :
                      ptyHosts'[h] = id => h \in DOMAIN ptyHosts]_vars

\* ---- C6: the lag report does not disconnect the subscriber: the send
\* task stays in its loop, its socket is untouched, and its cursor is back
\* inside the ring, so that each frame published afterwards is still to be
\* received.
C6_LaggedKeepsRunning ==
    [][\A t \in Transports :
         (tPc[t] = "recv" /\ rxNext[t] < Oldest /\ rxNext'[t] # rxNext[t])
            => /\ tPc'[t] = "recv"
               /\ wsOpen'[t] = wsOpen[t]
               /\ rxNext'[t] >= Oldest
               /\ rxNext'[t] <= tail + 1]_vars

\* C6's case: a transport lagged and was later sent a frame published after
\* the lag report
C6_Witness ==
    \E t \in Transports :
        /\ lagInfo[t].lagged
        /\ \E i \in DOMAIN sent[t] : \E k \in DOMAIN published :
              k > lagInfo[t].at /\ sent[t][i] = published[k]

\* ---- C7 (as claimed): the first frame received after a lag report is
\* the newest frame published so far.
C7_ResumesWithNewest ==
    [][\A t \in Transports :
         (lagInfo[t].fresh /\ Len(got'[t]) > Len(got[t]))
            => got'[t][Len(got'[t])] = published[tail]]_vars

\* ---- C8: a slow, lagging or failed subscriber affects only itself: the
\* publish step is enabled whatever the receivers' state, a subscriber that
\* has not lagged has received every frame published since it subscribed up
\* to its cursor, and a send task ends only when its own socket is closed.
C8_SubscribersIndependent ==
    /\ ePc = "send" => ENABLED EmuSend
    /\ \A t \in Transports :
          (tPc[t] \in {"recv", "wsSend"} /\ ~lagInfo[t].lagged)
             => got[t] = SubSeq(published, subInfo[t].tail + 1, rxNext[t] - 1)
    /\ \A t \in Transports : tPc[t] = "ended" => ~wsOpen[t]

\* C8's case: one subscriber has lagged and its socket is closed, the other
\* has kept up and received every frame
C8_Witness ==
    \E a, b \in Transports :
        /\ a # b
        /\ lagInfo[a].lagged /\ ~wsOpen[a]
        /\ tPc[b] = "recv" /\ wsOpen[b] /\ ~lagInfo[b].lagged
        /\ subInfo[b].tail = 0
        /\ Len(got[b]) = FanoutCmds
        /\ sent[b] = got[b]

\* min_interval_ms has held its value K > 0 since before the throttle
\* check of the previous frame
SteadyK == eHist.checks >= 2 /\ minInterval > 0

\* ---- C9 (as claimed): while min_interval_ms holds a constant K > 0, two
\* consecutive frames are published at least K ms apart, measured at the
\* moment of publication.
C9_PublishedKApart ==
    (SteadyK /\ eHist.prevPubAt >= 0 /\ ePc \in {"recv", "drain", "throttle"})
        => eHist.pubAt - eHist.prevPubAt >= minInterval

\* ---- C9 (amended): while min_interval_ms holds a constant K > 0, the
\* throttle timestamps (last_sent) of two consecutive frames are at least
\* K ms apart.
C9_StampedKApart ==
    (SteadyK /\ ePc # "sleep") => eLastSent - eHist.prevStamp >= minInterval

\* C9's case: the loop slept out the rest of the interval and stamped the
\* frame exactly K ms after the previous one
C9_Witness ==
    /\ SteadyK
    /\ ePc = "build"
    /\ eWake = eLastSent
    /\ eLastSent - eHist.prevStamp = minInterval

\* ---- C10 (as claimed): with min_interval_ms > 0 a live frame is
\* transmitted only if at least min_interval_ms have elapsed since the
\* transport's previous transmission, whatever min_interval_ms was then.
C10_SendTaskSpacing ==
    \A t \in Transports :
        (txInfo[t].k > 0 /\ txInfo[t].gap >= 0) => txInfo[t].gap >= txInfo[t].k

\* ---- C11: while min_interval_ms is 0 the emulator loop's throttle check
\* never leads to a sleep and the send task's throttle check never drops:
\* each frame received from the subscription is handed to the socket, and a
\* frame handed to an open socket is written to it.
C11_ZeroDisablesThrottle ==
    [][/\ minInterval = 0 =>
             /\ (ePc = "throttle" => ePc' # "sleep")
             /\ \A t \in Transports :
                   Len(got'[t]) > Len(got[t]) =>
                      /\ tPc'[t] = "wsSend"
                      /\ tMsg'[t] = got'[t][Len(got'[t])]
       /\ \A t \in Transports :
             (tPc[t] = "wsSend" /\ tPc'[t] # "wsSend" /\ wsOpen[t])
                => sent'[t] = Append(sent[t], tMsg[t])]_vars

\* C11's case: at interval 0 the emulator loop has passed its throttle check
\* and published, and a send task has received two frames and sent both
C11_Witness ==
    \E t \in Transports :
        /\ minInterval = 0
        /\ eHist.checks >= 1 /\ ePc = "recv" /\ tail >= 2
        /\ txInfo[t].k = 0 /\ txInfo[t].at >= 0
        /\ tPc[t] = "recv" /\ Len(got[t]) >= 2
        /\ \A i \in DOMAIN got[t] : \E j \in DOMAIN sent[t] :
              sent[t][j] = got[t][i]

\* ---- C12: the commands queued when the loop wakes are all applied before
\* the frame of that wake-up is built, each wake-up publishes exactly one
\* frame, and so the frames published never outnumber the wake-ups.
C12_OneFramePerBurst ==
    /\ tail <= eHist.wakes
    /\ eHist.wakes = tail + (IF ePc = "recv" THEN 0 ELSE 1)
    /\ ePc \in {"throttle", "sleep", "build"} => applied >= eHist.burst
    /\ ePc = "send" => eFrame >= eHist.burst
    /\ \A i \in DOMAIN published : published[i] >= i
    /\ \A i, j \in DOMAIN published : i < j => published[i] < published[j]

\* C12's case: three commands were queued at the second wake-up and the
\* one frame about to be published holds them all
C12_Witness ==
    /\ eHist.wakes = 2
    /\ eHist.burst = 4
    /\ ePc = "send"
    /\ published = <<1>>
    /\ eFrame = 4

\* the last message the receive task of t handled
LastText(t) == rxLog[t][Len(rxLog[t])].text

\* in this step the receive task of t handles a text of the set S
Handles(t, S) == msgCount'[t] > msgCount[t] /\ LastText(t)' \in S

\* what a quality message does and where it is felt: it stores K and
\* nothing else (no PtyCommand, nothing published or in flight is touched),
\* min_interval_ms changes in no other way, the throttle checks of the
\* emulator loop and of the send tasks decide by the value stored, and a
\* frame that has passed the send task's check is written to its socket
QualityEffect ==
    /\ \A t \in Transports :
          Handles(t, QualityTexts) =>
             /\ minInterval' = AsU64(LastText(t)'.num)
             /\ ptyQ' = ptyQ /\ termQ' = termQ
             /\ published' = published /\ lastFrame' = lastFrame
             /\ ePc' = ePc /\ eFrame' = eFrame
             /\ rxNext' = rxNext /\ tMsg' = tMsg /\ tPc' = tPc
             /\ sent' = sent
    /\ minInterval' # minInterval =>
          \E t \in Transports : Handles(t, QualityTexts)
    /\ (ePc = "throttle" /\ ePc' # "throttle") =>
          /\ (ePc' = "sleep") =
                (minInterval > 0 /\ now - eLastSent < minInterval)
          /\ ePc' = "sleep" => eWake' = eLastSent + minInterval
    /\ \A t \in Transports :
          Len(got'[t]) > Len(got[t]) =>
             (tPc'[t] = "recv") =
                (minInterval > 0 /\ now - tLastSent[t] < minInterval)
    /\ \A t \in Transports :
          (tPc[t] = "wsSend" /\ tPc'[t] # "wsSend" /\ wsOpen[t])
             => sent'[t] = Append(sent[t], tMsg[t])

\* a frame published before the transport's last quality message, taken
\* from the subscription after it, is handed to the socket
StillDelivered ==
    \A t \in Transports :
        (/\ Len(got'[t]) > Len(got[t])
         /\ rxLog[t] # <<>>
         /\ LastText(t) \in QualityTexts
         /\ rxNext[t] <= rxLog[t][Len(rxLog[t])].tail)
            => tPc'[t] = "wsSend"

\* ---- C13 (as claimed): a quality message stores K and sends no
\* PtyCommand, the next throttle checks use K, and the frames already
\* published are still delivered.
C13_PublishedStillDelivered == [][QualityEffect /\ StillDelivered]_vars

\* ---- C13 (amended): a quality message stores K and sends no PtyCommand,
\* the next throttle checks use K, nothing already published is withdrawn
\* and a frame that has passed the send task's check is still sent.
C13_QualityTakesEffect == [][QualityEffect]_vars

\* C13's case: K > 0 was stored after a frame was published, the emulator
\* loop has since slept on a throttle check and the send task has since
\* passed a frame under K
C13_Witness ==
    /\ rxLog[1] # <<>>
    /\ rxLog[1][Len(rxLog[1])].tail >= 1
    /\ minInterval > 0
    /\ minInterval = AsU64(LastText(1).num)
    /\ ePc = "sleep"
    /\ txInfo[1].k = minInterval
    /\ tPc[1] = "recv" /\ wsOpen[1]
    /\ Len(sent[1]) >= 1

\* ---- C14 (as claimed): handling a quality message whose min_interval_ms
\* is negative or above the unsigned range does not fail, and it sets the
\* session's min_interval_ms to 0.
C14_BadQualityClampsToZero ==
    [][\A t \in Transports :
         Handles(t, BadQualityTexts) =>
            /\ rPc'[t] = "run"
            /\ minInterval' = 0]_vars

\* the texts that do not parse as a ClientMessage
Unparsable ==
    {text \in BadQualityTexts \cup OtherTexts : ~ParseClientMessage(text).ok}

\* ---- C15: a text that does not parse as a ClientMessage is discarded:
\* no PtyCommand is queued, min_interval_ms and the emulator queue are
\* unchanged, the socket stays open and the receive loop keeps running.
C15_MalformedDiscarded ==
    [][\A t \in Transports :
         Handles(t, Unparsable) =>
            /\ ptyQ' = ptyQ /\ termQ' = termQ /\ ptyWritten' = ptyWritten
            /\ minInterval' = minInterval
            /\ wsOpen' = wsOpen /\ tPc' = tPc
            /\ rPc'[t] = "run"]_vars

\* C15's case: the first text did not parse, the second was a data message
\* and has been written to the PTY
C15_Witness ==
    \E t \in Transports :
        /\ Len(rxLog[t]) = 2
        /\ rxLog[t][1].text \in Unparsable
        /\ rxLog[t][2].text.type = "data"
        /\ \E i \in DOMAIN ptyWritten :
              ptyWritten[i].src = t /\ ptyWritten[i].seq = 2

\* the commands of transport t appear in log in the order they arrived
InOrder(log, t) ==
    \A i, j \in DOMAIN log :
        (i < j /\ log[i].src = t /\ log[j].src = t) => log[i].seq < log[j].seq

\* ---- C16: per transport, Data is written to the PTY master in the order
\* of arrival, and Resize and Scroll reach the emulator loop in the order of
\* arrival, whatever the other transport and the PTY reader do.
C16_OrderPreserved ==
    \A t \in Transports :
        /\ InOrder(ptyWritten, t)
        /\ InOrder(termGot, t)
        /\ InOrder(ptyQ, t)
        /\ InOrder(termQ, t)

\* C16's case: both transports' messages went through, interleaved with
\* each other and with PTY output: two writes of one transport around a
\* write of the other, and a resize and a scroll taken by the emulator loop
C16_Witness ==
    /\ Len(ptyWritten) >= 3
    /\ ptyWritten[1].src = ptyWritten[3].src
    /\ ptyWritten[1].src # ptyWritten[2].src
    /\ applied >= 2
    /\ cmdCount = 1
    /\ Len(termGot) >= 1

\* ---- C17 (as claimed): after the PTY reader reaches EOF, eventually the
\* emulator loop has exited, the broadcast channel is closed and every
\* send task has ended.
C17_ShellExitEndsSession ==
    (readerPc = "exited")
        ~> (/\ ePc = "exited"
            /\ BroadcastClosed
            /\ \A t \in Transports : tPc[t] \in {"idle", "ended"})

\* ---- C20 (as claimed): after a write of client Data to the PTY master
\* has failed the control loop takes no more commands, and eventually the
\* emulator loop has exited and the broadcast channel is closed.
C20_WriteFailureEndsSession ==
    /\ [][ctlPc = "exited" => ctlPc' = "exited" /\ ptyWritten' = ptyWritten]_vars
    /\ (ctlPc = "exited") ~> (ePc = "exited" /\ BroadcastClosed)

\* the Session objects a behaviour can create: one per request and id
Objects == 1..(NumCallers * NumIds)

\* the registry maps the id of Session object o to o
InRegistry(o) == o \in DOMAIN ptyHosts /\ sessions[ptyHosts[o]] = o

\* a transport is attached to Session object o, or about to be
Subscribed(o) ==
    \E c \in Callers : cPc[c] \in {"upgrade", "attached"} /\ cSess[c] = o

\* the PTY of Session object o has exited and no transport is subscribed
DeadAndAlone(o) ==
    /\ o \in DOMAIN ptyHosts
    /\ o \notin shellUp
    /\ ~Subscribed(o)

\* ---- C18 (as claimed): once a session's PTY has exited and no transport
\* is subscribed to it, its registry entry is eventually removed (or a
\* transport has subscribed again in the meantime).
C18_DeadSessionRemoved ==
    \A o \in Objects :
        [](DeadAndAlone(o) => <>(~InRegistry(o) \/ ~DeadAndAlone(o)))

\* ---- C19 (as claimed): a session whose PTY could not be opened or whose
\* shell could not be spawned is torn down: eventually it is not in the
\* registry and no transport stays attached to it.
C19_FailedSessionTornDown ==
    \A o \in Objects :
        (o \in ptyFailed) ~> (~InRegistry(o) /\ ~Subscribed(o))

\* the transport is closed: its receive task or its send task has ended
TransportClosed(t) == rPc[t] = "ended" \/ tPc[t] = "ended"

\* neither task of the transport runs and frame_rx (owned by the send
\* task) is dropped
TransportReleased(t) == tPc[t] \in {"idle", "ended"} /\ rPc[t] # "run"

\* ---- C21 (as claimed): when a transport closes (its receive task or its
\* send task ends), the other task is cancelled and the subscription is
\* dropped, whether or not a further frame is published.
C21_CloseCancelsBoth ==
    \A t \in Transports : TransportClosed(t) ~> TransportReleased(t)

\* ---- C22: every frame build_frame returns, after any sequence of Data,
\* Resize and Scroll commands, has cells.len() = cols * rows.
C22_CellsLenIsColsTimesRows ==
    frame.built => frame.cells_len = TimesUsize(frame.cols, frame.rows)

\* C22's case: a frame of more than 2^16 cells built after a resize
C22_Witness ==
    /\ frame.built
    /\ frame.after # <<>>
    /\ frame.cols = 300 /\ frame.rows = 300
    /\ frame.cells_len = <<1, 24464>>

ShowsResize(i) ==
    /\ frame.cols = frame.after[i][1]
    /\ frame.rows = frame.after[i][2]
    /\ frame.cells_len = TimesUsize(frame.after[i][1], frame.after[i][2])

Called(fn) == probe.fn = fn /\ probe.done

\* ---- C25: for every palette index i in 0..255, color_256(i) is the i-th
\* ANSI-16 triple for i <= 15, the cube triple (51 * ((i-16)/36),
\* 51 * (((i-16)/6) mod 6), 51 * ((i-16) mod 6)) for 16 <= i <= 231 and the
\* grey (i-232) * 10 + 8 on three channels for i >= 232, and no channel
\* overflows 8 bits.
C25_Color256Table ==
    Called("color_256") =>
       LET i == probe.idx
       IN  /\ i <= 15 => probe.out = Ansi16[i + 1]
           /\ (16 <= i /\ i <= 231) =>
                 probe.out = <<51 * ((i - 16) \div 36),
                               51 * (((i - 16) \div 6) % 6),
                               51 * ((i - 16) % 6)>>
           /\ i >= 232 =>
                 probe.out = <<(i - 232) * 10 + 8, (i - 232) * 10 + 8,
                               (i - 232) * 10 + 8>>
           /\ ~probe.overflow
           /\ \A ch \in 1..3 : probe.out[ch] \in 0..255

\* C25's case: the last colour of the cube, every channel at 255
C25_Witness ==
    /\ Called("color_256")
    /\ probe.idx = 231
    /\ probe.out = <<255, 255, 255>>

\* ---- C26: convert_cell emits the resolved background and foreground
\* swapped, with inverse = true, when the cell's inverse flag is set, and
\* the resolved foreground and background unswapped, with inverse = false,
\* otherwise.
C26_InverseSwapsColours ==
    Called("convert_cell") =>
       LET fg == ResolveColor(probe.cell.fg, probe.colors)
           bg == ResolveColor(probe.cell.bg, probe.colors)
       IN  IF "INVERSE" \in probe.cell.flags
           THEN /\ probe.out.fg = bg /\ probe.out.bg = fg
                /\ probe.out.inverse
           ELSE /\ probe.out.fg = fg /\ probe.out.bg = bg
                /\ ~probe.out.inverse

\* C26's case: an inverse cell with a dim named foreground on a palette
\* background comes out with the two exchanged
C26_Witness ==
    /\ Called("convert_cell")
    /\ "INVERSE" \in probe.cell.flags
    /\ probe.cell.fg = [kind |-> "Named", named |-> "DimRed"]
    /\ probe.cell.bg = [kind |-> "Indexed", idx |-> 16]
    /\ probe.out.fg = <<0, 0, 0>>
    /\ probe.out.bg = <<136, 32, 32>>
    /\ probe.out.inverse

\* request c is past the authorization check of ws_handler_with_auth
PastGate(c) == cPc[c] # "idle"

\* ---- C27: no session is created and no transport is attached for a
\* WebSocket request the authorization check rejects:
\* get_or_create_session and handle_socket run only after
\* check_auth_from_headers returned true for that request.
C27_RejectedRequestsStopAtGate ==
    /\ [][\A c \in Callers :
            (~PastGate(c) /\ PastGate(c)') =>
               /\ cHdr'[c].passed
               /\ auth.ip \/ ~IsRegistered(auth)
                     \/ IsSessionValid(auth, cHdr'[c].cookie)]_vars
    /\ [][\A c \in Callers :
            (cHdr'[c] # cHdr[c] /\ ~cHdr'[c].passed) =>
               /\ ~PastGate(c)'
               /\ sessions' = sessions /\ ptyHosts' = ptyHosts]_vars
    /\ [][(sessions' # sessions \/ ptyHosts' # ptyHosts) =>
            \E c \in Callers : PastGate(c) /\ cHdr[c].passed]_vars
    /\ [](\A c \in Callers : PastGate(c) => cHdr[c].passed)

\* C27's case: a passkey is registered; a request whose cookie was not
\* valid was answered 401 and left no session, a later one with the cookie
\* of a login is attached
C27_Witness ==
    /\ IsRegistered(auth)
    /\ cHdr[1].cookie = "a" /\ ~cHdr[1].passed /\ cPc[1] = "idle"
    /\ cId[2] = 2
    /\ sessions[1] = 0
    /\ cHdr[2].cookie = "a" /\ cHdr[2].passed /\ cPc[2] = "attached"
    /\ sessions[2] # 0

\* ---- C28 (as claimed): for every Frame, encoding ServerMessage::Frame in
\* JSON or in bincode and decoding it with the client's ServerMessage
\* decoder yields a frame with the same cols, rows, cursor fields and
\* cells, and the two formats decode to the same frame.
C28_BothFormatsRoundTrip ==
    Called("wire") =>
       /\ probe.json.ok /\ probe.json.frame = probe.frame
       /\ probe.bin.ok /\ probe.bin.frame = probe.frame
       /\ probe.json = probe.bin

\* ---- C29 (as claimed): while max_frames is N > 0 the receive queue never
\* holds more than N frames, after any sequence of incoming messages,
\* try_recv calls and set_max_frames calls; with max_frames = 0 no incoming
\* frame is dropped.
C29_QueueWithinLimit ==
    /\ [](client.max > 0 => Len(client.buf) <= client.max)
    /\ [][(client.offered' # client.offered /\ client.max = 0
            /\ client.last' \in {"json", "bincode"})
           => client.buf' = Append(client.buf, client.offered')]_vars

\* the Resize commands in a queue of commands
Resizes(q) == {i \in 1..Len(q) : q[i].kind = "Resize"}

\* the control loop takes a Resize from its input queue in this step
TakesResize ==
    /\ ptyQ # <<>>
    /\ Head(ptyQ).kind = "Resize"
    /\ ptyQ' = Tail(ptyQ)

\* ---- C30: each PtyCommand::Resize(c, r) the control loop handles resizes
\* the PTY master first and then sends exactly one TermCommand::Resize(c, r)
\* with the same c and r to the emulator loop, also when the master resize
\* fails.
C30_ResizeThenForward ==
    /\ [][TakesResize =>
            /\ master'.calls = master.calls + 1
            /\ master'.cmd = Head(ptyQ)
            /\ ctlPc' = "resized"
            /\ termQ' = termQ]_vars
    /\ [][(ctlPc = "resized" /\ ctlPc' # "resized") =>
            /\ ctlPc' = "recv"
            /\ termQ' = Append(termQ, master.cmd)
            /\ master' = master]_vars
    /\ [][Cardinality(Resizes(termQ')) > Cardinality(Resizes(termQ)) =>
            /\ ctlPc = "resized"
            /\ Cardinality(Resizes(termQ')) = Cardinality(Resizes(termQ)) + 1
           ]_vars
    /\ [][ctlPc = "resized" => (master' = master /\ ptyWritten' = ptyWritten)
         ]_vars

\* C30's case: master.resize failed for a client's Resize and the emulator
\* loop has nevertheless taken that Resize, once, from its queue
C30_Witness ==
    /\ ctlPc = "recv"
    /\ master.calls = 1
    /\ ~master.ok
    /\ master.cmd.kind = "Resize"
    /\ termGot = <<master.cmd>>
    /\ Resizes(termQ) = {}

\* the Scroll commands in a queue of commands
Scrolls(q) == {i \in 1..Len(q) : q[i].kind = "Scroll"}

\* the control loop takes a Scroll from its input queue in this step
TakesScroll ==
    /\ ptyQ # <<>>
    /\ Head(ptyQ).kind = "Scroll"
    /\ ptyQ' = Tail(ptyQ)

\* ---- C31: a Scroll(delta) command is local to the emulator: handling it
\* writes no bytes to the PTY master and does not resize the PTY; its only
\* effect is one TermCommand::Scroll with the same delta sent to the
\* emulator loop.
C31_ScrollOnlyForwarded ==
    /\ [][TakesScroll =>
            /\ ctlPc' = "scroll"
            /\ ctlCmd' = Head(ptyQ)
            /\ termQ' = termQ
            /\ master' = master /\ ptyWritten' = ptyWritten]_vars
    /\ [][(ctlPc = "scroll" /\ ctlPc' # "scroll") =>
            /\ ctlPc' = "recv"
            /\ termQ' = Append(termQ, ctlCmd)
            /\ master' = master /\ ptyWritten' = ptyWritten]_vars
    /\ [][ctlPc = "scroll" =>
            (master' = master /\ ptyWritten' = ptyWritten)]_vars
    /\ [][Cardinality(Scrolls(termQ')) > Cardinality(Scrolls(termQ)) =>
            /\ ctlPc = "scroll"
            /\ Cardinality(Scrolls(termQ')) = Cardinality(Scrolls(termQ)) + 1
            /\ termQ'[Len(termQ')].arg
                  = AsI32(rxLog[ctlCmd.src][ctlCmd.seq].text.num)]_vars

\* C31's case: the client scrolled down by one line and then up by two; the
\* emulator loop took the two Scrolls with their deltas, and the PTY master
\* was neither written to nor resized
C31_Witness ==
    /\ ctlPc = "recv"
    /\ Len(termGot) = 2
    /\ termGot[1].kind = "Scroll" /\ termGot[1].arg = -1
    /\ termGot[2].kind = "Scroll" /\ termGot[2].arg = 2
    /\ ptyWritten = <<>>
    /\ master.calls = 0

\* ---- C32: the last_frame slot is written only by the emulator loop; no
\* attach, detach or client message modifies it, once set it is never
\* emptied, and each attaching transport reads it exactly once.
C32_LastFrameSingleWriter ==
    /\ [][lastFrame' # lastFrame =>
            /\ ePc = "build" /\ ePc' = "send"
            /\ lastFrame' = build_frame
            /\ tPc' = tPc /\ rPc' = rPc /\ wsOpen' = wsOpen
            /\ msgCount' = msgCount /\ minInterval' = minInterval]_vars
    /\ [][lastFrame # 0 => lastFrame' # 0]_vars
    /\ [][\A t \in Transports :
            /\ tPc'[t] = "readLast" =>
                  tPc[t] \in {"idle", "ended", "readLast"}
            /\ (tPc[t] = "readLast" /\ tPc'[t] # "readLast") =>
                  tPc'[t] = "sendInitial" /\ tLast'[t] = lastFrame
            /\ tLast'[t] # tLast[t] =>
                  \/ tPc[t] = "readLast" /\ tPc'[t] = "sendInitial"
                  \/ tPc[t] # "readLast" /\ tPc'[t] = "readLast"]_vars

\* C32's case: a connection read frame 1 from the slot when it attached,
\* changed the throttle and closed; the emulator loop has since replaced the
\* frame in the slot
C32_Witness ==
    /\ tLast[1] = 1
    /\ sent[1] # <<>> /\ sent[1][1] = 1
    /\ minInterval = 1
    /\ ~wsOpen[1]
    /\ lastFrame = 2

\* the commands the router has accepted from transport t: one for each of
\* its messages that parsed as Data, Resize or Scroll
Accepted(t) ==
    {i \in 1..msgCount[t] :
        ParseClientMessage(rxLog[t][i].text).kind \in {"Data", "Resize", "Scroll"}}

\* where the command of message i of transport t is: the places that hold
\* it, counted
Holders(t, i) ==
    LET At(q) == Cardinality({n \in 1..Len(q) : q[n].src = t /\ q[n].seq = i})
    IN  At(ptyQ) + At(termQ) + At(ptyWritten) + At(termGot)
        + (IF ctlPc \in {"resized", "scroll"}
               /\ ctlCmd.src = t /\ ctlCmd.seq = i THEN 1 ELSE 0)

\* ---- C33: while a session's PTY command channel is open, the input
\* router drops no Data, Resize or Scroll message when the channel is full:
\* the receive task waits for space, which delays reading further messages
\* from that transport.
C33_FullChannelDropsNothing ==
    /\ [](~PtyRxDropped =>
            /\ Len(ptyQ) <= PtyCap
            /\ \A t \in Transports : \A i \in Accepted(t) : Holders(t, i) = 1)
    /\ [][\A t \in Transports :
            (msgCount'[t] # msgCount[t] /\ msgCount'[t] \in Accepted(t)'
               /\ ~PtyRxDropped) =>
                 /\ Len(ptyQ) < PtyCap
                 /\ Len(ptyQ') = Len(ptyQ) + 1
                 /\ ptyQ'[Len(ptyQ')].src = t
                 /\ ptyQ'[Len(ptyQ')].seq = msgCount'[t]]_vars
    /\ [][(Len(ptyQ) = PtyCap /\ ~PtyRxDropped) =>
            \A t \in Transports : msgCount'[t] \in Accepted(t)' =>
                                      msgCount'[t] = msgCount[t]]_vars

\* C33's case: the two transports have sent four commands through the
\* channel of capacity PtyCap, which is full again: the control loop holds
\* one command and the last two wait in the channel
C33_Witness ==
    /\ msgCount[1] = MaxMsgs /\ msgCount[2] = MaxMsgs
    /\ Len(ptyQ) = PtyCap
    /\ ptyQ[1].seq = MaxMsgs /\ ptyQ[2].seq = MaxMsgs
    /\ ctlPc = "scroll"

\* the control loop waits in term_cmd_tx.blocking_send: the emulator queue
\* is full
ControlBlocked ==
    /\ ctlPc \in {"resized", "scroll"}
    /\ ~TermRxDropped
    /\ Len(termQ) >= TermCap

\* the emulator loop waits in pty_tx.blocking_send inside send_event: the
\* PTY command queue is full
EmuBlocked ==
    /\ ePc = "reply"
    /\ ~PtyRxDropped
    /\ Len(ptyQ) >= PtyCap

\* ---- C34 (as claimed): the control loop and the emulator loop never
\* deadlock on each other: in no reachable state is the control loop blocked
\* sending a Resize or Scroll into a full emulator queue while the emulator
\* loop is blocked sending a terminal reply into a full PTY command queue.
C34_NoMutualWait == ~(ControlBlocked /\ EmuBlocked)

\* transport t is attached, has never lagged and has nothing left to do:
\* its send task waits in frame_rx.recv() with every published message taken
CaughtUp(t) ==
    /\ wsOpen[t]
    /\ tPc[t] = "recv"
    /\ rxNext[t] > tail
    /\ ~lagInfo[t].lagged

\* ---- C35 (as claimed): for a transport that stays attached and keeps up
\* with the ring, once the emulator loop goes idle the most recent frame
\* published has been transmitted to that transport, for every value of
\* min_interval_ms.
C35_LastFrameTransmitted ==
    \A t \in Transports :
        (EmuIdle /\ CaughtUp(t) /\ lastFrame # 0) =>
            /\ sent[t] # <<>>
            /\ sent[t][Len(sent[t])] = lastFrame

\* handle_socket of transport t has read last_frame
HasReadLast(t) == tPc[t] \notin {"idle", "readLast"}

\* the messages the subscription of t has handed out so far, had it missed
\* none since frame_tx.subscribe()
Subscription(t) ==
    [i \in 1..(rxNext[t] - 1 - subInfo[t].tail) |->
        published[subInfo[t].tail + i]]

\* ---- C36: an attaching transport misses no frame: every frame published
\* after the frame it was sent as its initial message is delivered to its
\* broadcast subscription (unless it lags past the ring capacity), under any
\* interleaving of the attach with the emulator loop's store to last_frame
\* and its broadcast send.
C36_AttachMissesNoFrame ==
    \A t \in Transports :
        HasReadLast(t) =>
            /\ \A i \in 1..tail :
                  published[i] > tLast[t] => i > subInfo[t].tail
            /\ ~lagInfo[t].lagged =>
                  /\ rxNext[t] > subInfo[t].tail
                  /\ rxNext[t] <= tail + 1
                  /\ got[t] = Subscription(t)

\* C36's case: the transport subscribed before frame 1 was sent and read
\* last_frame after it was stored: frame 1 went out as the initial message,
\* and the subscription has handed out frame 1 again and then frame 2
C36_Witness ==
    /\ subInfo[1].tail = 0
    /\ tLast[1] = 1
    /\ sent[1] # <<>> /\ sent[1][1] = 1
    /\ got[1] = <<1, 2>>
    /\ ~lagInfo[1].lagged

\* ---- C37: whenever the emulator loop is idle (blocked on an empty command
\* queue), last_frame is the snapshot of the emulator state after every
\* command dequeued so far, including commands that arrived while the loop
\* was sleeping in the throttle: no applied command is left without a later
\* published frame.
C37_IdleMeansPublished ==
    (EmuIdle /\ applied > 0) =>
        /\ lastFrame = applied
        /\ published # <<>>
        /\ published[Len(published)] = applied

\* C37's case: with a throttle of 2 ms a second buffer arrived while the
\* loop slept before publishing frame 1; the loop took it on its next turn,
\* slept again and published frame 2, and is idle
C37_Witness ==
    /\ EmuIdle
    /\ minInterval = 2
    /\ eHist.wakes = 2
    /\ published = <<1, 2>>
    /\ eHist.pubAt >= eHist.prevPubAt + 2
    /\ lastFrame = 2
    /\ applied = 2

\* ---- C38 (as claimed): once a passkey credential is registered, the
\* stored credential changes only through reset_auth, which runs only
\* before the server accepts requests: no sequence of start_registration and
\* finish_registration calls replaces it, and the setup token stays invalid
\* for every token value.
C38_CredentialKept ==
    /\ [][auth.credential # 0 => auth'.credential = auth.credential]_vars
    /\ [](auth.credential # 0 =>
            \A token \in {0} \cup Tokens : ~ValidateSetupToken(auth, token))

\* ---- C39: after lock_system or reset_auth runs, is_session_valid returns
\* false for every auth session id issued before it, and with a passkey
\* registered check_auth_from_headers accepts a request only if it carries
\* a session id created by create_session whose expiry is later than the
\* current time.
C39_OnlyLiveSessionsPass ==
    /\ [](\A id \in auth.revoked : ~IsSessionValid(auth, id))
    /\ [][auth'.sessions = {} => auth'.revoked = auth'.issued]_vars
    /\ [][\A c \in Callers :
            (~PastGate(c) /\ PastGate(c)' /\ IsRegistered(auth)) =>
               /\ cHdr'[c].cookie \in auth.issued \ auth.revoked
               /\ \E e \in auth.sessions :
                     e.id = cHdr'[c].cookie /\ e.expiry > auth.clock]_vars
    /\ [][\A c \in Callers :
            (cPc[c] = "idle" /\ cHdr'[c] # cHdr[c] /\ IsRegistered(auth)
               /\ \A e \in auth.sessions :
                     e.id = cHdr'[c].cookie => e.expiry <= auth.clock)
              => ~cHdr'[c].passed /\ ~PastGate(c)']_vars

\* C39's case: with a passkey registered, the session "a" was locked out
\* and the session "b" of a later login has expired: the browser's last
\* request carried "b" and was answered 401
C39_Witness ==
    /\ IsRegistered(auth)
    /\ auth.revoked = {"a"}
    /\ auth.issued = {"a", "b"}
    /\ \E e \in auth.sessions : e.id = "b" /\ e.expiry = auth.clock
    /\ cHdr[1] = [cookie |-> "b", passed |-> FALSE]
    /\ sessions[1] # 0

\* ---- C40 (as claimed): on the client, after render() has drained the
\* transport queue, the terminal grid equals the most recent frame the
\* transport received from the server: when more frames arrive between two
\* render calls than max_frames allows, the frames discarded are the older
\* ones, never the newest.
C40_RenderShowsNewest ==
    /\ [](client.drained => client.grid = client.newest)
    /\ [][(client'.offered # client.offered /\ client'.last = "json"
            /\ client.max > 0)
           => /\ client'.buf # <<>>
              /\ client'.buf[Len(client'.buf)] = client'.offered]_vars

====
